---- MODULE Spec2Model ----
(***************************************************************************)
(* The incremental bulk-fetch loops of the corpus-data staging scripts     *)
(* (src/utils/<source>/stage.py): enumerate the remote units, skip the     *)
(* ones present locally, fetch the rest, count, log a summary.             *)
(*                                                                         *)
(* One behaviour is a sequence of invocations (runs) of ONE script over an *)
(* unchanged remote plan of N units and unchanged options.  A run is a     *)
(* sequential process; it is cut at its suspension points only: a network  *)
(* call or a curl subprocess in flight, where the process can also be      *)
(* terminated from outside (Kill).  Everything the code does between two   *)
(* suspension points is one step.                                          *)
(***************************************************************************)
EXTENDS Integers, Sequences, FiniteSets, TLC

MaxUnits == 3      \* units in the remote plan: 0..MaxUnits
MaxRuns == 2       \* invocations of the script in one behaviour

Units == 1..MaxUnits

(***************************************************************************)
(* File contents are byte sequences.  Good is the complete content of a    *)
(* remote unit, ErrBody the body a server sends with a non-2xx status.     *)
(***************************************************************************)
Good == <<1, 2>>
ErrBody == <<9>>

Prefix(c) == SubSeq(c, 1, Len(c) - 1)

RECURSIVE SumBytes(_)
SumBytes(c) == IF c = <<>> THEN 0 ELSE Head(c) + SumBytes(Tail(c))

\* hashlib.md5 over the file's chunks, abstracted to a small checksum of the
\* bytes read (position-independent sum and length, so collisions exist).
md5(c) == (SumBytes(c) * 31 + Len(c)) % 97

NoMd5 == 0 - 1     \* download_md5 returning None

(***************************************************************************)
(* The filesystem under the storage root: fs maps each existing file path  *)
(* to its content, dirs is the set of existing directories.  A unit's      *)
(* local target is named by the unit's number, IndexPath is the cached     *)
(* index (ccnews warc.paths, edgar master.idx).                            *)
(***************************************************************************)
IndexPath == 0

Exists(f, p) == p \in DOMAIN f
Write(f, p, c) == [q \in DOMAIN f \cup {p} |-> IF q = p THEN c ELSE f[q]]
Unlink(f, p) == [q \in DOMAIN f \ {p} |-> f[q]]
NoFiles == [q \in {} |-> <<>>]

(***************************************************************************)
(* What one transfer of a unit can do.                                     *)
(*   ok            2xx, every byte delivered                               *)
(*   http_error    the server answers with a non-2xx status and a body     *)
(*   connect_fail  timeout or refused connection before any byte           *)
(*   reset         connection reset after part of the body                 *)
(***************************************************************************)
Outcomes == {"ok", "http_error", "connect_fail", "reset"}
TransportFailures == {"http_error", "connect_fail", "reset"}

\* curl -L -o dest url (no --fail): a non-2xx body is saved like any other
\* body and the exit code is 0; the exit code is non-zero on a transfer error.
curl_returncode(o) == IF o \in {"ok", "http_error"} THEN 0 ELSE 1
CurlBody(o) == IF o = "http_error" THEN ErrBody ELSE Good
\* dest while curl is still running, and when it has exited
CurlStart(f, p, o) == IF o = "connect_fail" THEN f ELSE Write(f, p, Prefix(CurlBody(o)))
CurlExit(f, p, o) ==
    CASE o = "connect_fail" -> f
      [] o = "reset" -> Write(f, p, Prefix(Good))
      [] OTHER -> Write(f, p, CurlBody(o))

VARIABLES
    script,       \* which stage script is run
    dry_run,      \* args.dry_run
    verify,       \* args.verify (pubmed_abstracts)
    has_cred,     \* the script's required credential is in the environment
    listed_size,  \* fileSize the USPTO listing gives for a unit (0: absent)
    N,            \* number of units the remote index lists
    run,          \* number of the current invocation
    pc,           \* control point of the current invocation
    prev_pc,      \* how the previous invocation ended ("none" for the first)
    i,            \* loop index: the unit being processed
    inflight,     \* outcome of the transfer in flight ("none" when idle)
    fs, dirs,     \* the filesystem under the storage root
    fs0, dirs0,   \* the filesystem when the current invocation started
    downloaded, failed, verified,   \* the loop counters of main
    expected_md5, \* what download_md5 last returned (pubmed_abstracts)
    took,         \* per unit, the branch this run took for it
    netcalls,     \* per unit, network calls made for it in this run
    listcalls,    \* listing (enumeration) calls made in this run
    listing,      \* how the last listing call of this run ended ("none": no call)
    summary       \* the final summary line, once logged

\* config._load_env, which runs when a script imports config
VARIABLES
    environ,      \* os.environ: the variables that are set, with their values
    environ0,     \* os.environ before _load_env was called
    dotenv        \* the lines of the .env file

envvars == <<environ, environ0, dotenv>>

\* the derivation of local target paths from what the remote lists
VARIABLES
    links,        \* the units the remote lists in this run, in listing order
    count,        \* extract_pdfs_doclaynet: files written so far in this run
    derived,      \* per unit identifier, every path a run has derived for it
    extracted,    \* the derived paths at which a file exists
    filename,     \* the name the remote index gives for the unit at hand
    written       \* the places in the filesystem where a file was written

pathvars == <<links, count, derived, extracted, filename, written>>

\* the pauses (time.sleep) between the network calls of a script
VARIABLES
    called,         \* a network call has been issued in this run
    slept,          \* time.sleep has run since the last network call
    paused_before,  \* the last network call was the first or came after a sleep
    attempt,        \* nycourts fetch: the number of the attempt (1..retries)
    court           \* courtlistener main: the court being downloaded

ratevars == <<called, slept, paused_before, attempt, court>>

\* the --limit option over the groups (quarters, months, document types) that
\* one invocation processes
VARIABLES
    limit,        \* --limit as given on the command line (NoLimit: not given)
    groups,       \* number of groups the invocation processes
    g,            \* the group being processed
    todo,         \* length of the group's list after the limit is applied
    enumerated,   \* units enumerated so far, over all groups
    units_fetched       \* units handed to the download function so far

limitvars == <<limit, groups, g, todo, enumerated, units_fetched>>

\* the enumeration functions that cache the index they fetch
\* (ccnews fetch_warc_paths, edgar download_index with parse_index)
VARIABLES
    remote,        \* the index text the server holds
    index_file,    \* the cache file: whether it exists, and its text
    paths,         \* what the enumeration at hand has returned
    index_calls,   \* network calls of the enumeration at hand
    was_cached,    \* the enumeration at hand found the cache file
    enum,          \* number of the enumeration at hand
    prev_enum      \* how the enumeration before ended, and what it returned

indexvars == <<remote, index_file, paths, index_calls, was_cached, enum, prev_enum>>

\* the CourtListener import into PostgreSQL (import_data.py and
\* import_data_nas.py)
VARIABLES
    missing_csv,      \* the tables whose CSV file is not in DATA_DIR
    invoked,          \* the tables import_csv was called for, in call order
    pending,          \* the table whose COPY is in the open transaction
    committed,        \* the tables whose rows are committed
    raised,           \* the table whose import_csv raised
    rollbacks,        \* calls of conn.rollback()
    success_printed   \* "All data imported successfully!" was printed

importvars == <<missing_csv, invoked, pending, committed, raised, rollbacks,
                success_printed>>

\* nycourts/stage.py crawl_court_archives, called by main for one court after
\* the other
VARIABLES
    now,            \* datetime.now(): [year, month]
    year,           \* the loop's year
    month,          \* the loop's month
    visited,        \* the months crawl_index_page was called for, in call order
    court_total,    \* the function's total
    archive_total   \* main's total over the courts

archivevars == <<now, year, month, visited, court_total, archive_total>>

\* uspto/stage.py: the pagination of the file listing in main
VARIABLES
    file_count,   \* the count the server reports: the product has files 1..count
    server_cap,   \* the most files the server puts on one page
    offset,       \* main's offset
    all_files,    \* main's all_files
    offsets,      \* the offsets requested so far, in request order
    consecutive   \* every page so far began right after the files listed before

usptovars == <<file_count, server_cap, offset, all_files, offsets, consecutive>>

\* nycourts/stage.py fetch, called by download_document
VARIABLES
    retries,   \* fetch's parameter
    tried,     \* how each attempt made so far went, in order
    sleeps,    \* calls of time.sleep(2)
    result,    \* what fetch returned: "response" or "None"; "raised" if it raised
    saved      \* download_document has written the output file

fetchvars == <<retries, tried, sleeps, result, saved>>

\* courtlistener_download.py: main's loop over NY_COURTS and the page loop of
\* download_opinions
VARIABLES
    page_len,      \* opinions the API puts on one page
    page,          \* download_opinions: page
    total,         \* download_opinions: total
    grand_total,   \* main: grand_total
    broke,         \* the call at hand left its loop through "except: break"
    written_now,   \* opinions whose file the call at hand has written
    partial,       \* opinion files left behind by a write that raised
    on_disk,       \* the opinion files written so far, as <<court, opinion>>
    returned       \* what download_opinions returned for each court so far

opinionvars == <<page_len, page, total, grand_total, broke, written_now, partial,
                 on_disk, returned>>

\* the state of the further scripts and functions that have specifications
\* of their own
morevars == <<importvars, archivevars, usptovars, fetchvars, opinionvars>>

\* what the specification of one of them leaves alone
beside_import == <<archivevars, usptovars, fetchvars, opinionvars>>
beside_archive == <<importvars, usptovars, fetchvars, opinionvars>>
beside_uspto == <<importvars, archivevars, fetchvars, opinionvars>>
beside_fetch == <<importvars, archivevars, usptovars, opinionvars>>
beside_opinion == <<importvars, archivevars, usptovars, fetchvars>>

\* the state of the parts that the download loops of main do not touch
auxvars == <<envvars, pathvars, ratevars, limitvars, indexvars, morevars>>

cfgvars == <<script, dry_run, verify, has_cred, listed_size, N, auxvars>>
runvars == <<run, prev_pc, fs0, dirs0>>
\* every variable of an invocation but script, pc and i
mainrest == <<dry_run, verify, has_cred, listed_size, N, run, prev_pc,
              inflight, fs, dirs, fs0, dirs0, downloaded, failed, verified,
              expected_md5, took, netcalls, listcalls, listing, summary>>
vars == <<script, dry_run, verify, has_cred, listed_size, N, run, pc, prev_pc,
          i, inflight, fs, dirs, fs0, dirs0, downloaded, failed, verified,
          expected_md5, took, netcalls, listcalls, listing, summary, auxvars>>

NoSummary == [printed |-> FALSE]
Running == {"loop", "transfer", "writing", "verify"}
Ended == {"done", "crashed", "exit1", "killed"}

Scripts == {"stackexchange", "uspto", "pubmed_abstracts", "pubmed_central",
            "edgar", "ccnews", "semantic_scholar", "nycourts_search",
            "docling", "courtlistener", "govinfo", "fineweb"}

\* the scripts with a --dry-run option, and those that need a credential
HasDryRun == Scripts \ {"nycourts_search", "courtlistener"}
NeedsCred == {"uspto", "docling", "fineweb", "courtlistener"}

InitRun ==
    /\ pc = "start" /\ i = 1 /\ inflight = "none"
    /\ downloaded = 0 /\ failed = 0 /\ verified = 0
    /\ expected_md5 = NoMd5
    /\ took = [u \in 1..N |-> "none"]
    /\ netcalls = [u \in 1..N |-> 0]
    /\ listcalls = 0 /\ listing = "none"
    /\ summary = NoSummary

NoEnv == [k \in {} |-> 0]

\* the import of config is over: .env has been read
EnvIdle == environ = NoEnv /\ environ0 = NoEnv /\ dotenv = <<>>

PathUnitIds == 1..3

NoName == [abs |-> FALSE, segs |-> <<>>]

PathsIdle ==
    /\ links = <<>> /\ count = 0
    /\ derived = [u \in PathUnitIds |-> {}]
    /\ extracted = {}
    /\ filename = NoName /\ written = {}

RateIdle ==
    /\ called = FALSE /\ slept = FALSE /\ paused_before = TRUE
    /\ attempt = 1 /\ court = 1

NoLimit == 0 - 1   \* args.limit when --limit is not given and has no default

LimitIdle ==
    /\ limit = NoLimit /\ groups = 1 /\ g = 1
    /\ todo = 0 /\ enumerated = 0 /\ units_fetched = 0

NoIndexFile == [exists |-> FALSE, text |-> <<>>]
NoEnum == [pc |-> "none", paths |-> <<>>]

IndexIdle ==
    /\ remote = <<>> /\ index_file = NoIndexFile /\ paths = <<>>
    /\ index_calls = 0 /\ was_cached = FALSE /\ enum = 1 /\ prev_enum = NoEnum

ImportIdle ==
    /\ missing_csv = {} /\ invoked = <<>> /\ pending = "none"
    /\ committed = {} /\ raised = "none" /\ rollbacks = 0
    /\ success_printed = FALSE

ArchiveIdle ==
    /\ now = [year |-> 2003, month |-> 10] /\ year = 2003 /\ month = 10
    /\ visited = <<>> /\ court_total = 0 /\ archive_total = 0

UsptoIdle ==
    /\ file_count = 0 /\ server_cap = 1 /\ offset = 0
    /\ all_files = <<>> /\ offsets = <<>> /\ consecutive = TRUE

FetchIdle ==
    /\ retries = 0 /\ tried = <<>> /\ sleeps = 0
    /\ result = "none" /\ saved = FALSE

OpinionIdle ==
    /\ page_len = 1 /\ page = 1 /\ total = 0 /\ grand_total = 0
    /\ broke = FALSE /\ written_now = {} /\ partial = {}
    /\ on_disk = {} /\ returned = <<>>

MoreIdle == ImportIdle /\ ArchiveIdle /\ UsptoIdle /\ FetchIdle /\ OpinionIdle

BesideImportIdle == ArchiveIdle /\ UsptoIdle /\ FetchIdle /\ OpinionIdle
BesideArchiveIdle == ImportIdle /\ UsptoIdle /\ FetchIdle /\ OpinionIdle
BesideUsptoIdle == ImportIdle /\ ArchiveIdle /\ FetchIdle /\ OpinionIdle
BesideFetchIdle == ImportIdle /\ ArchiveIdle /\ UsptoIdle /\ OpinionIdle
BesideOpinionIdle == ImportIdle /\ ArchiveIdle /\ UsptoIdle /\ FetchIdle

AuxIdle == EnvIdle /\ PathsIdle /\ RateIdle /\ LimitIdle /\ IndexIdle /\ MoreIdle

\* The state when the first invocation starts: the module import has run
\* config.storage_dir(source), which creates the source's storage directory.
Init ==
    /\ AuxIdle
    /\ script \in Scripts
    /\ dry_run \in (IF script \in HasDryRun THEN BOOLEAN ELSE {FALSE})
    /\ verify \in (IF script = "pubmed_abstracts" THEN BOOLEAN ELSE {FALSE})
    /\ has_cred \in (IF script \in NeedsCred THEN BOOLEAN ELSE {TRUE})
    /\ listed_size \in (IF script = "uspto" THEN {0, Len(Good)} ELSE {0})
    /\ N \in 0..MaxUnits
    /\ run = 1 /\ prev_pc = "none"
    /\ fs = NoFiles /\ dirs = {"storage"}
    /\ fs0 = fs /\ dirs0 = dirs
    /\ InitRun

\* the loop of main moves on to unit j, or falls out of the loop and logs s
Advance(j, s) ==
    /\ i' = j
    /\ inflight' = "none"
    /\ IF j > N THEN pc' = "done" /\ summary' = s
                ELSE pc' = "loop" /\ summary' = summary

\* main enters its download loop, which logs s0 at once when the plan is empty
EnterLoop(s0) ==
    /\ i' = 1
    /\ IF N = 0 THEN pc' = "done" /\ summary' = s0
                ELSE pc' = "loop" /\ summary' = summary

\* main ends at control point p without having logged a summary of counts
EndAt(p) == pc' = p /\ UNCHANGED <<i, summary>>

Took(u, b) == took' = [took EXCEPT ![u] = b]
NetCall(u) == netcalls' = [netcalls EXCEPT ![u] = @ + 1]

\* subprocess.run(["curl", "-L", "-o", str(dest), ...]) is started for unit u
CurlLaunch(u) ==
    /\ \E o \in Outcomes :
         /\ inflight' = o
         /\ fs' = CurlStart(fs, u, o)
    /\ pc' = "transfer"
    /\ NetCall(u)

(***************************************************************************)
(* stackexchange/stage.py                                                  *)
(***************************************************************************)
stackexchange_summary(d, f) ==
    [printed |-> TRUE, downloaded |-> d, failed |-> f, total |-> N]

stackexchange_main ==
    /\ script = "stackexchange" /\ pc = "start"
    /\ dirs' = dirs \cup {"storage"}
    /\ listcalls' = listcalls + 1
    /\ \E listed \in BOOLEAN :
         /\ listing' = (IF listed THEN "ok" ELSE "error")
         /\ IF ~listed THEN EndAt("crashed")
            ELSE IF dry_run THEN EndAt("done")
            ELSE EnterLoop(stackexchange_summary(0, 0))
    /\ UNCHANGED <<cfgvars, runvars, inflight, fs, downloaded, failed,
                   verified, expected_md5, took, netcalls>>

\* download_file up to the curl subprocess, and main's loop body when it
\* returns at once
stackexchange_download_file ==
    /\ script = "stackexchange" /\ pc = "loop"
    /\ IF Exists(fs, i)
       THEN /\ downloaded' = downloaded + 1
            /\ Took(i, "skip")
            /\ Advance(i + 1, stackexchange_summary(downloaded + 1, failed))
            /\ UNCHANGED <<fs, netcalls>>
       ELSE /\ CurlLaunch(i)
            /\ UNCHANGED <<i, downloaded, took, summary>>
    /\ UNCHANGED <<cfgvars, runvars, dirs, failed, verified, expected_md5, listcalls, listing>>

\* curl exits: the rest of download_file and of main's loop body
stackexchange_curl_exit ==
    /\ script = "stackexchange" /\ pc = "transfer"
    /\ Took(i, inflight)
    /\ IF curl_returncode(inflight) # 0
       THEN /\ fs' = Unlink(CurlExit(fs, i, inflight), i)
            /\ failed' = failed + 1
            /\ Advance(i + 1, stackexchange_summary(downloaded, failed + 1))
            /\ UNCHANGED downloaded
       ELSE /\ fs' = CurlExit(fs, i, inflight)
            /\ downloaded' = downloaded + 1
            /\ Advance(i + 1, stackexchange_summary(downloaded + 1, failed))
            /\ UNCHANGED failed
    /\ UNCHANGED <<cfgvars, runvars, dirs, verified, expected_md5, netcalls, listcalls, listing>>

(***************************************************************************)
(* uspto/stage.py                                                          *)
(***************************************************************************)
uspto_summary(d, f) == [printed |-> TRUE, downloaded |-> d, failed |-> f]

\* _api_request exits with status 1 before any request when USPTO_API_KEY is
\* not set; the plan fits one page of the listing (N <= page_size).
uspto_main ==
    /\ script = "uspto" /\ pc = "start"
    /\ dirs' = dirs \cup {"storage"}
    /\ IF ~has_cred
       THEN EndAt("exit1") /\ UNCHANGED <<listcalls, listing>>
       ELSE /\ listcalls' = listcalls + 1
            /\ \E answer \in {"ok", "not_found", "error"} :
                 /\ listing' = answer
                 /\ CASE answer = "error" -> EndAt("crashed")
                      [] answer = "not_found" -> EndAt("exit1")
                      [] OTHER -> IF dry_run THEN EndAt("done")
                                  ELSE EnterLoop(uspto_summary(0, 0))
    /\ UNCHANGED <<cfgvars, runvars, inflight, fs, downloaded, failed,
                   verified, expected_md5, took, netcalls>>

\* the skip test of download_file: dest.exists() and st_size == size
uspto_skip(f, u) == Exists(f, u) /\ Len(f[u]) = listed_size

uspto_download_file ==
    /\ script = "uspto" /\ pc = "loop"
    /\ IF uspto_skip(fs, i)
       THEN /\ downloaded' = downloaded + 1
            /\ Took(i, "skip")
            /\ Advance(i + 1, uspto_summary(downloaded + 1, failed))
            /\ UNCHANGED <<fs, dirs, netcalls>>
       ELSE /\ dirs' = dirs \cup {"product"}
            /\ CurlLaunch(i)
            /\ UNCHANGED <<i, downloaded, took, summary>>
    /\ UNCHANGED <<cfgvars, runvars, failed, verified, expected_md5, listcalls, listing>>

\* a size mismatch after exit code 0 is only logged as a warning
uspto_curl_exit ==
    /\ script = "uspto" /\ pc = "transfer"
    /\ Took(i, inflight)
    /\ IF curl_returncode(inflight) # 0
       THEN /\ fs' = Unlink(CurlExit(fs, i, inflight), i)
            /\ failed' = failed + 1
            /\ Advance(i + 1, uspto_summary(downloaded, failed + 1))
            /\ UNCHANGED downloaded
       ELSE /\ fs' = CurlExit(fs, i, inflight)
            /\ downloaded' = downloaded + 1
            /\ Advance(i + 1, uspto_summary(downloaded + 1, failed))
            /\ UNCHANGED failed
    /\ UNCHANGED <<cfgvars, runvars, dirs, verified, expected_md5, netcalls, listcalls, listing>>

(***************************************************************************)
(* pubmed_abstracts/stage.py                                               *)
(***************************************************************************)
pubmed_summary(d, f, v) ==
    [printed |-> TRUE, downloaded |-> d, failed |-> f, verified |-> v,
     total |-> N]

\* pubmed_main without the return of the --dry-run branch
pubmed_main_no_dry_run ==
    /\ script = "pubmed_abstracts" /\ pc = "start"
    /\ dirs' = dirs \cup {"storage"}
    /\ listcalls' = listcalls + 1
    /\ \E listed \in BOOLEAN :
         /\ listing' = (IF listed THEN "ok" ELSE "error")
         /\ IF ~listed THEN EndAt("crashed")
            ELSE EnterLoop(pubmed_summary(0, 0, 0))
    /\ UNCHANGED <<cfgvars, runvars, inflight, fs, downloaded, failed,
                   verified, expected_md5, took, netcalls>>

pubmed_main ==
    /\ script = "pubmed_abstracts" /\ pc = "start"
    /\ dirs' = dirs \cup {"storage"}
    /\ listcalls' = listcalls + 1
    /\ \E listed \in BOOLEAN :
         /\ listing' = (IF listed THEN "ok" ELSE "error")
         /\ IF ~listed THEN EndAt("crashed")
            ELSE IF dry_run THEN EndAt("done")
            ELSE EnterLoop(pubmed_summary(0, 0, 0))
    /\ UNCHANGED <<cfgvars, runvars, inflight, fs, downloaded, failed,
                   verified, expected_md5, took, netcalls>>

\* download_file up to curl; when it returns dest at once, main counts the
\* unit and, under --verify, requests the unit's .md5 file
pubmed_download_file ==
    /\ script = "pubmed_abstracts" /\ pc = "loop"
    /\ IF Exists(fs, i)
       THEN /\ downloaded' = downloaded + 1
            /\ Took(i, "skip")
            /\ IF verify
               THEN /\ pc' = "verify" /\ NetCall(i)
                    /\ UNCHANGED <<i, inflight, summary>>
               ELSE /\ Advance(i + 1, pubmed_summary(downloaded + 1, failed, verified))
                    /\ UNCHANGED netcalls
            /\ UNCHANGED fs
       ELSE /\ CurlLaunch(i)
            /\ UNCHANGED <<i, downloaded, took, summary>>
    /\ UNCHANGED <<cfgvars, runvars, dirs, failed, verified, expected_md5, listcalls, listing>>

pubmed_curl_exit ==
    /\ script = "pubmed_abstracts" /\ pc = "transfer"
    /\ Took(i, inflight)
    /\ IF curl_returncode(inflight) # 0
       THEN /\ fs' = Unlink(CurlExit(fs, i, inflight), i)
            /\ failed' = failed + 1
            /\ Advance(i + 1, pubmed_summary(downloaded, failed + 1, verified))
            /\ UNCHANGED <<downloaded, netcalls>>
       ELSE /\ fs' = CurlExit(fs, i, inflight)
            /\ downloaded' = downloaded + 1
            /\ UNCHANGED failed
            /\ IF verify
               THEN /\ pc' = "verify" /\ NetCall(i)
                    /\ inflight' = "none"
                    /\ UNCHANGED <<i, summary>>
               ELSE /\ Advance(i + 1, pubmed_summary(downloaded + 1, failed, verified))
                    /\ UNCHANGED netcalls
    /\ UNCHANGED <<cfgvars, runvars, dirs, verified, expected_md5, listcalls, listing>>

\* download_md5: the hash in the server's .md5 file, or None when the request
\* fails or the answer holds no 32-digit hash
download_md5(answered) == IF answered THEN md5(Good) ELSE NoMd5

verify_file(content, expected) == md5(content) = expected

\* pubmed_verify without dest.unlink on a checksum mismatch
pubmed_verify_keeps_file ==
    /\ script = "pubmed_abstracts" /\ pc = "verify"
    /\ \E answered \in BOOLEAN :
         /\ expected_md5' = download_md5(answered)
         /\ IF expected_md5' # NoMd5 /\ verify_file(fs[i], expected_md5')
            THEN /\ verified' = verified + 1
                 /\ Advance(i + 1, pubmed_summary(downloaded, failed, verified + 1))
                 /\ UNCHANGED <<fs, failed, downloaded>>
            ELSE IF expected_md5' # NoMd5
            THEN /\ failed' = failed + 1
                 /\ downloaded' = downloaded - 1
                 /\ Advance(i + 1, pubmed_summary(downloaded - 1, failed + 1, verified))
                 /\ UNCHANGED <<fs, verified>>
            ELSE /\ Advance(i + 1, pubmed_summary(downloaded, failed, verified))
                 /\ UNCHANGED <<fs, failed, downloaded, verified>>
    /\ UNCHANGED <<cfgvars, runvars, dirs, took, netcalls, listcalls, listing>>

\* pubmed_verify without "downloaded -= 1" on a checksum mismatch
pubmed_verify_no_decrement ==
    /\ script = "pubmed_abstracts" /\ pc = "verify"
    /\ \E answered \in BOOLEAN :
         /\ expected_md5' = download_md5(answered)
         /\ IF expected_md5' # NoMd5 /\ verify_file(fs[i], expected_md5')
            THEN /\ verified' = verified + 1
                 /\ Advance(i + 1, pubmed_summary(downloaded, failed, verified + 1))
                 /\ UNCHANGED <<fs, failed, downloaded>>
            ELSE IF expected_md5' # NoMd5
            THEN /\ fs' = Unlink(fs, i)
                 /\ failed' = failed + 1
                 /\ Advance(i + 1, pubmed_summary(downloaded, failed + 1, verified))
                 /\ UNCHANGED <<verified, downloaded>>
            ELSE /\ Advance(i + 1, pubmed_summary(downloaded, failed, verified))
                 /\ UNCHANGED <<fs, failed, downloaded, verified>>
    /\ UNCHANGED <<cfgvars, runvars, dirs, took, netcalls, listcalls, listing>>

\* the answer to the .md5 request arrives: the rest of main's loop body
pubmed_verify ==
    /\ script = "pubmed_abstracts" /\ pc = "verify"
    /\ \E answered \in BOOLEAN :
         /\ expected_md5' = download_md5(answered)
         /\ IF expected_md5' # NoMd5 /\ verify_file(fs[i], expected_md5')
            THEN /\ verified' = verified + 1
                 /\ Advance(i + 1, pubmed_summary(downloaded, failed, verified + 1))
                 /\ UNCHANGED <<fs, failed, downloaded>>
            ELSE IF expected_md5' # NoMd5
            THEN /\ fs' = Unlink(fs, i)
                 /\ failed' = failed + 1
                 /\ downloaded' = downloaded - 1
                 /\ Advance(i + 1, pubmed_summary(downloaded - 1, failed + 1, verified))
                 /\ UNCHANGED verified
            ELSE /\ Advance(i + 1, pubmed_summary(downloaded, failed, verified))
                 /\ UNCHANGED <<fs, failed, downloaded, verified>>
    /\ UNCHANGED <<cfgvars, runvars, dirs, took, netcalls, listcalls, listing>>

(***************************************************************************)
(* pubmed_central/stage.py (one tier)                                      *)
(***************************************************************************)
pmc_summary(d) == [printed |-> TRUE, downloaded |-> d, total |-> N]

pmc_main ==
    /\ script = "pubmed_central" /\ pc = "start"
    /\ dirs' = dirs \cup {"storage"}
    /\ listcalls' = listcalls + 1
    /\ \E listed \in BOOLEAN :
         /\ listing' = (IF listed THEN "ok" ELSE "error")
         /\ IF ~listed THEN EndAt("crashed")
            ELSE IF dry_run THEN EndAt("done")
            ELSE EnterLoop(pmc_summary(0))
    /\ UNCHANGED <<cfgvars, runvars, inflight, fs, downloaded, failed,
                   verified, expected_md5, took, netcalls>>

download_package ==
    /\ script = "pubmed_central" /\ pc = "loop"
    /\ IF Exists(fs, i)
       THEN /\ downloaded' = downloaded + 1
            /\ Took(i, "skip")
            /\ Advance(i + 1, pmc_summary(downloaded + 1))
            /\ UNCHANGED <<fs, dirs, netcalls>>
       ELSE /\ dirs' = dirs \cup {"tier"}
            /\ CurlLaunch(i)
            /\ UNCHANGED <<i, downloaded, took, summary>>
    /\ UNCHANGED <<cfgvars, runvars, failed, verified, expected_md5, listcalls, listing>>

pmc_curl_exit ==
    /\ script = "pubmed_central" /\ pc = "transfer"
    /\ Took(i, inflight)
    /\ IF curl_returncode(inflight) # 0
       THEN /\ fs' = Unlink(CurlExit(fs, i, inflight), i)
            /\ Advance(i + 1, pmc_summary(downloaded))
            /\ UNCHANGED downloaded
       ELSE /\ fs' = CurlExit(fs, i, inflight)
            /\ downloaded' = downloaded + 1
            /\ Advance(i + 1, pmc_summary(downloaded + 1))
    /\ UNCHANGED <<cfgvars, runvars, dirs, failed, verified, expected_md5, netcalls, listcalls, listing>>

(***************************************************************************)
(* edgar/stage.py (one quarter)                                            *)
(***************************************************************************)
edgar_summary(d) == [printed |-> TRUE, downloaded |-> d, total |-> N]

\* the master.idx the remote serves: one record per filing
IndexData == [k \in 1..N |-> k]

\* main up to its download loop: download_index writes the index cache, also
\* under --dry-run, and a quarter without index is passed over
edgar_main ==
    /\ script = "edgar" /\ pc = "start"
    /\ \E fetched \in BOOLEAN :
         IF Exists(fs, IndexPath)
         THEN /\ dirs' = dirs \cup {"storage", "indexes", "filings"}
              /\ listing' = "cached"
              /\ UNCHANGED <<fs, listcalls>>
              /\ IF dry_run THEN EndAt("done") ELSE EnterLoop(edgar_summary(0))
         ELSE /\ listcalls' = listcalls + 1
              /\ listing' = (IF fetched THEN "ok" ELSE "error")
              /\ IF ~fetched
                 THEN /\ dirs' = dirs \cup {"storage", "indexes", "filings"}
                      /\ UNCHANGED fs
                      /\ EndAt("done")
                 ELSE /\ dirs' = dirs \cup {"storage", "indexes", "filings", "indexes/qtr"}
                      /\ fs' = Write(fs, IndexPath, IndexData)
                      /\ IF dry_run THEN EndAt("done")
                         ELSE EnterLoop(edgar_summary(0))
    /\ UNCHANGED <<cfgvars, runvars, inflight, downloaded, failed, verified, expected_md5,
                   took, netcalls>>

\* download_filing up to _sec_request
download_filing ==
    /\ script = "edgar" /\ pc = "loop"
    /\ IF Exists(fs, i)
       THEN /\ downloaded' = downloaded + 1
            /\ Took(i, "skip")
            /\ Advance(i + 1, edgar_summary(downloaded + 1))
            /\ UNCHANGED netcalls
       ELSE /\ \E o \in Outcomes : inflight' = o
            /\ pc' = "transfer"
            /\ NetCall(i)
            /\ UNCHANGED <<i, downloaded, took, summary>>
    /\ UNCHANGED <<cfgvars, runvars, fs, dirs, failed, verified, expected_md5, listcalls, listing>>

\* _sec_request returns the body or raises (urlopen raises on a non-2xx
\* status too); with the body in hand dest.write_bytes(data) begins
edgar_sec_request ==
    /\ script = "edgar" /\ pc = "transfer"
    /\ IF inflight # "ok"
       THEN /\ Took(i, inflight)
            /\ Advance(i + 1, edgar_summary(downloaded))
            /\ UNCHANGED <<fs, dirs>>
       ELSE /\ dirs' = dirs \cup {"filings/parent"}
            /\ fs' = Write(fs, i, Prefix(Good))
            /\ pc' = "writing"
            /\ UNCHANGED <<i, inflight, took, summary>>
    /\ UNCHANGED <<cfgvars, runvars, downloaded, failed, verified, expected_md5, netcalls,
                   listcalls, listing>>

\* write_bytes completes, download_filing returns dest
edgar_write_bytes ==
    /\ script = "edgar" /\ pc = "writing"
    /\ fs' = Write(fs, i, Good)
    /\ downloaded' = downloaded + 1
    /\ Took(i, "ok")
    /\ Advance(i + 1, edgar_summary(downloaded + 1))
    /\ UNCHANGED <<cfgvars, runvars, dirs, failed, verified, expected_md5, netcalls, listcalls, listing>>

(***************************************************************************)
(* ccnews/stage.py (one month)                                             *)
(***************************************************************************)
ccnews_summary(w, d) == [printed |-> TRUE, indexed |-> w, downloaded |-> d]

\* len(data.strip().split("\n")): the empty text splits into one empty path
warc_paths_len(data) == IF Len(data) = 0 THEN 1 ELSE Len(data)

\* after fetch_warc_paths has given the paths of index text data: the dry-run
\* branch, the loop, or (empty text) the loop over the one empty path, whose
\* dest is the directory warcs/unknown, which exists
ccnews_after_index(data) ==
    IF dry_run
    THEN /\ pc' = "done" /\ i' = i
         /\ summary' = ccnews_summary(warc_paths_len(data), 0)
         /\ dirs' = dirs \cup {"storage", "indexes", "warcs", "indexes/month"}
    ELSE IF Len(data) = 0
    THEN /\ pc' = "done" /\ i' = i
         /\ summary' = ccnews_summary(1, 1)
         /\ dirs' = dirs \cup {"storage", "indexes", "warcs", "indexes/month",
                               "warcs/unknown"}
    ELSE /\ EnterLoop(ccnews_summary(0, 0))
         /\ dirs' = dirs \cup {"storage", "indexes", "warcs", "indexes/month"}

ccnews_main ==
    /\ script = "ccnews" /\ pc = "start"
    /\ \E fetched \in BOOLEAN :
         IF Exists(fs, IndexPath)
         THEN /\ listing' = "cached"
              /\ UNCHANGED <<fs, listcalls>>
              /\ ccnews_after_index(fs[IndexPath])
         ELSE /\ listcalls' = listcalls + 1
              /\ listing' = (IF fetched THEN "ok" ELSE "error")
              /\ IF ~fetched
                 THEN /\ dirs' = dirs \cup {"storage", "indexes", "warcs"}
                      /\ UNCHANGED <<fs, i>>
                      /\ pc' = "done"
                      /\ summary' = ccnews_summary(0, 0)
                 ELSE /\ fs' = Write(fs, IndexPath, IndexData)
                      /\ ccnews_after_index(IndexData)
    /\ UNCHANGED <<cfgvars, runvars, inflight, downloaded, failed, verified, expected_md5,
                   took, netcalls>>

download_warc ==
    /\ script = "ccnews" /\ pc = "loop"
    /\ dirs' = dirs \cup {"warcs/month"}
    /\ IF Exists(fs, i)
       THEN /\ downloaded' = downloaded + 1
            /\ Took(i, "skip")
            /\ Advance(i + 1, ccnews_summary(N, downloaded + 1))
            /\ UNCHANGED <<fs, netcalls>>
       ELSE /\ CurlLaunch(i)
            /\ UNCHANGED <<i, downloaded, took, summary>>
    /\ UNCHANGED <<cfgvars, runvars, failed, verified, expected_md5, listcalls, listing>>

ccnews_curl_exit ==
    /\ script = "ccnews" /\ pc = "transfer"
    /\ Took(i, inflight)
    /\ IF curl_returncode(inflight) # 0
       THEN /\ fs' = Unlink(CurlExit(fs, i, inflight), i)
            /\ Advance(i + 1, ccnews_summary(N, downloaded))
            /\ UNCHANGED downloaded
       ELSE /\ fs' = CurlExit(fs, i, inflight)
            /\ downloaded' = downloaded + 1
            /\ Advance(i + 1, ccnews_summary(N, downloaded + 1))
    /\ UNCHANGED <<cfgvars, runvars, dirs, failed, verified, expected_md5, netcalls, listcalls, listing>>

(***************************************************************************)
(* semantic_scholar/stage.py (--release latest, one dataset)               *)
(***************************************************************************)
s2_summary(d) == [printed |-> TRUE, downloaded |-> d]

\* main up to the loop of download_dataset: get_latest_release (exit 1 when it
\* fails), then get_download_links, which the dry-run branch calls as well
s2_main ==
    /\ script = "semantic_scholar" /\ pc = "start"
    /\ \E release \in BOOLEAN, linked \in BOOLEAN :
         IF ~release
         THEN /\ listcalls' = listcalls + 1
              /\ listing' = "error"
              /\ dirs' = dirs \cup {"storage"}
              /\ EndAt("exit1")
         ELSE /\ listcalls' = listcalls + 2
              /\ listing' = (IF linked THEN "ok" ELSE "error")
              /\ IF ~linked
                 THEN dirs' = dirs \cup {"storage"} /\ EndAt("crashed")
                 ELSE IF dry_run
                 THEN dirs' = dirs \cup {"storage"} /\ EndAt("done")
                 ELSE /\ dirs' = dirs \cup {"storage", "dataset"}
                      /\ EnterLoop(s2_summary(0))
    /\ UNCHANGED <<cfgvars, runvars, inflight, fs, downloaded, failed,
                   verified, expected_md5, took, netcalls>>

download_dataset ==
    /\ script = "semantic_scholar" /\ pc = "loop"
    /\ IF Exists(fs, i)
       THEN /\ downloaded' = downloaded + 1
            /\ Took(i, "skip")
            /\ Advance(i + 1, s2_summary(downloaded + 1))
            /\ UNCHANGED <<fs, netcalls>>
       ELSE /\ CurlLaunch(i)
            /\ UNCHANGED <<i, downloaded, took, summary>>
    /\ UNCHANGED <<cfgvars, runvars, dirs, failed, verified, expected_md5, listcalls, listing>>

s2_curl_exit ==
    /\ script = "semantic_scholar" /\ pc = "transfer"
    /\ Took(i, inflight)
    /\ IF curl_returncode(inflight) = 0
       THEN /\ fs' = CurlExit(fs, i, inflight)
            /\ downloaded' = downloaded + 1
            /\ Advance(i + 1, s2_summary(downloaded + 1))
       ELSE /\ fs' = Unlink(CurlExit(fs, i, inflight), i)
            /\ Advance(i + 1, s2_summary(downloaded))
            /\ UNCHANGED downloaded
    /\ UNCHANGED <<cfgvars, runvars, dirs, failed, verified, expected_md5, netcalls, listcalls, listing>>

(***************************************************************************)
(* nycourts/search_stage.py (one court, one year; the script has no        *)
(* --dry-run)                                                              *)
(***************************************************************************)
nycourts_summary == [printed |-> TRUE, downloaded |-> N]

\* what download_opinion writes for a response body: a header, then the text
OpinionText(body) == <<0>> \o body

\* crawl_court_year up to its loop: the search POST raises on a transport
\* error; the page of a non-2xx answer holds no opinion link
nycourts_main ==
    /\ script = "nycourts_search" /\ pc = "start"
    /\ dirs' = dirs \cup {"storage"}
    /\ listcalls' = listcalls + 1
    /\ \E search \in {"ok", "http_error", "error"} :
         /\ listing' = search
         /\ CASE search = "error" -> EndAt("crashed")
              [] search = "http_error" ->
                   /\ pc' = "done" /\ i' = i
                   /\ summary' = [printed |-> TRUE, downloaded |-> 0]
              [] OTHER -> EnterLoop(nycourts_summary)
    /\ UNCHANGED <<cfgvars, runvars, inflight, fs, downloaded, failed,
                   verified, expected_md5, took, netcalls>>

\* the loop of crawl_court_year up to requests.get in download_opinion
crawl_court_year ==
    /\ script = "nycourts_search" /\ pc = "loop"
    /\ IF Exists(fs, i)
       THEN /\ Took(i, "skip")
            /\ Advance(i + 1, nycourts_summary)
            /\ UNCHANGED netcalls
       ELSE /\ \E o \in Outcomes : inflight' = o
            /\ pc' = "transfer"
            /\ NetCall(i)
            /\ UNCHANGED <<i, took, summary>>
    /\ UNCHANGED <<cfgvars, runvars, fs, dirs, downloaded, failed, verified, expected_md5,
                   listcalls, listing>>

\* requests.get returns (any status) or raises; nothing catches the exception
download_opinion ==
    /\ script = "nycourts_search" /\ pc = "transfer"
    /\ Took(i, inflight)
    /\ IF inflight \in {"connect_fail", "reset"}
       THEN /\ pc' = "crashed"
            /\ UNCHANGED <<i, inflight, fs, dirs, summary>>
       ELSE /\ dirs' = dirs \cup {"court/year"}
            /\ fs' = Write(fs, i, OpinionText(CurlBody(inflight)))
            /\ Advance(i + 1, nycourts_summary)
    /\ UNCHANGED <<cfgvars, runvars, downloaded, failed, verified, expected_md5, netcalls,
                   listcalls, listing>>

(***************************************************************************)
(* docling/stage.py (one dataset)                                          *)
(***************************************************************************)
docling_summary(d) == [printed |-> TRUE, downloaded |-> d]

docling_main ==
    /\ script = "docling" /\ pc = "start"
    /\ IF ~has_cred THEN EndAt("exit1") /\ UNCHANGED <<dirs, listcalls, listing>>
       ELSE IF dry_run THEN EndAt("done") /\ UNCHANGED <<dirs, listcalls, listing>>
       ELSE /\ dirs' = dirs \cup {"dataset"}
            /\ listcalls' = listcalls + 1
            /\ \E listed \in BOOLEAN :
                 /\ listing' = (IF listed THEN "ok" ELSE "error")
                 /\ IF listed THEN EnterLoop(docling_summary(0))
                    ELSE EndAt("crashed")
    /\ UNCHANGED <<cfgvars, runvars, inflight, fs, downloaded, failed,
                   verified, expected_md5, took, netcalls>>

\* the loop of download_parquets up to hf_hub_download
download_parquets ==
    /\ script = "docling" /\ pc = "loop"
    /\ IF Exists(fs, i)
       THEN /\ downloaded' = downloaded + 1
            /\ Took(i, "skip")
            /\ Advance(i + 1, docling_summary(downloaded + 1))
            /\ UNCHANGED netcalls
       ELSE /\ \E o \in {"ok", "connect_fail"} : inflight' = o
            /\ pc' = "transfer"
            /\ NetCall(i)
            /\ UNCHANGED <<i, downloaded, took, summary>>
    /\ UNCHANGED <<cfgvars, runvars, fs, dirs, failed, verified, expected_md5, listcalls, listing>>

\* hf_hub_download returns the local path or raises; nothing catches it
docling_hf_hub_download ==
    /\ script = "docling" /\ pc = "transfer"
    /\ Took(i, inflight)
    /\ IF inflight = "ok"
       THEN /\ fs' = Write(fs, i, Good)
            /\ downloaded' = downloaded + 1
            /\ Advance(i + 1, docling_summary(downloaded + 1))
       ELSE /\ pc' = "crashed"
            /\ UNCHANGED <<i, inflight, fs, downloaded, summary>>
    /\ UNCHANGED <<cfgvars, runvars, dirs, failed, verified, expected_md5, netcalls, listcalls, listing>>

(***************************************************************************)
(* courtlistener/courtlistener_download.py (one court; no --dry-run)       *)
(***************************************************************************)
PerPage == 1       \* opinions on one page of the API (page_size, scaled down)

courtlistener_summary(t) == [printed |-> TRUE, downloaded |-> t]

\* the opinions of the page that starts at unit j
PageUnits(j) == {u \in 1..N : j <= u /\ u < j + PerPage}

\* download_opinions up to its page loop
courtlistener_main ==
    /\ script = "courtlistener" /\ pc = "start"
    /\ dirs' = dirs \cup {"court"}
    /\ IF ~has_cred
       THEN pc' = "done" /\ i' = i /\ summary' = courtlistener_summary(0)
       ELSE pc' = "loop" /\ i' = 1 /\ summary' = summary
    /\ UNCHANGED <<cfgvars, runvars, inflight, fs, downloaded, failed,
                   verified, expected_md5, took, netcalls, listcalls, listing>>

\* one pass of the page loop: the page is requested and every opinion on it
\* is written to its file, existing or not; any exception ends the loop
download_opinions ==
    /\ script = "courtlistener" /\ pc = "loop"
    /\ listcalls' = listcalls + 1
    /\ \E o \in Outcomes :
         /\ listing' = (IF o = "ok" THEN "ok" ELSE "error")
         /\ IF o = "ok"
            THEN /\ fs' = [q \in DOMAIN fs \cup PageUnits(i) |->
                             IF q \in PageUnits(i) THEN Good ELSE fs[q]]
                 /\ took' = [u \in 1..N |-> IF u \in PageUnits(i) THEN "ok" ELSE took[u]]
                 /\ netcalls' = [u \in 1..N |->
                                   IF u \in PageUnits(i) THEN netcalls[u] + 1
                                   ELSE netcalls[u]]
                 /\ downloaded' = downloaded + Cardinality(PageUnits(i))
                 /\ i' = i + PerPage
                 /\ IF i + PerPage > N
                    THEN /\ pc' = "done"
                         /\ summary' = courtlistener_summary(
                                           downloaded + Cardinality(PageUnits(i)))
                    ELSE pc' = "loop" /\ summary' = summary
            ELSE /\ pc' = "done"
                 /\ summary' = courtlistener_summary(downloaded)
                 /\ UNCHANGED <<i, fs, took, netcalls, downloaded>>
    /\ UNCHANGED <<cfgvars, runvars, inflight, dirs, failed, verified, expected_md5>>

(***************************************************************************)
(* govinfo/stage.py (one collection, one subdivision)                      *)
(***************************************************************************)
govinfo_summary(c) == [printed |-> TRUE, downloaded |-> c]

\* main up to wget: list_subdivisions swallows the failure of its request;
\* download_recursive creates dest_dir before it looks at dry_run
govinfo_main ==
    /\ script = "govinfo" /\ pc = "start"
    /\ listcalls' = listcalls + 1
    /\ \E listed \in BOOLEAN : listing' = (IF listed THEN "ok" ELSE "error")
    /\ dirs' = dirs \cup {"storage", "collection/sub"}
    /\ IF dry_run
       THEN pc' = "done" /\ summary' = govinfo_summary(0)
       ELSE pc' = "transfer" /\ summary' = summary
    /\ UNCHANGED <<cfgvars, runvars, i, inflight, fs, downloaded, failed,
                   verified, expected_md5, took, netcalls>>

\* wget -r ends, whatever its exit code: the files it retrieved are in
\* dest_dir and download_recursive counts the files there
download_recursive ==
    /\ script = "govinfo" /\ pc = "transfer"
    /\ \E got \in SUBSET (1..N) :
         /\ fs' = [q \in DOMAIN fs \cup got |-> IF q \in got THEN Good ELSE fs[q]]
         /\ took' = [u \in 1..N |-> IF u \in got THEN "ok" ELSE "connect_fail"]
         /\ summary' = govinfo_summary(Cardinality((DOMAIN fs \cup got) \cap (1..N)))
    /\ netcalls' = [u \in 1..N |-> netcalls[u] + 1]
    /\ pc' = "done"
    /\ UNCHANGED <<cfgvars, runvars, i, inflight, dirs, downloaded, failed,
                   verified, expected_md5, listcalls, listing>>

(***************************************************************************)
(* fineweb/stage.py                                                        *)
(***************************************************************************)
fineweb_summary(c) == [printed |-> TRUE, downloaded |-> c]

\* main up to snapshot_download; the dry-run branch lists the remote files
fineweb_main ==
    /\ script = "fineweb" /\ pc = "start"
    /\ dirs' = dirs \cup {"storage"}
    /\ IF ~has_cred THEN EndAt("exit1") /\ UNCHANGED <<listcalls, listing>>
       ELSE IF dry_run
       THEN /\ listcalls' = listcalls + 1
            /\ \E listed \in BOOLEAN :
                 /\ listing' = (IF listed THEN "ok" ELSE "error")
                 /\ IF listed THEN EndAt("done") ELSE EndAt("crashed")
       ELSE pc' = "transfer" /\ UNCHANGED <<i, summary, listcalls, listing>>
    /\ UNCHANGED <<cfgvars, runvars, inflight, fs, downloaded, failed,
                   verified, expected_md5, took, netcalls>>

\* snapshot_download returns with every file of the subset in local_dir, or
\* raises with some of them there
download_subset ==
    /\ script = "fineweb" /\ pc = "transfer"
    /\ netcalls' = [u \in 1..N |-> netcalls[u] + 1]
    /\ \/ /\ fs' = [q \in DOMAIN fs \cup (1..N) |-> IF q \in 1..N THEN Good ELSE fs[q]]
          /\ took' = [u \in 1..N |-> "ok"]
          /\ pc' = "done"
          /\ summary' = fineweb_summary(N)
       \/ \E got \in (SUBSET (1..N)) \ {1..N} :
            /\ fs' = [q \in DOMAIN fs \cup got |-> IF q \in got THEN Good ELSE fs[q]]
            /\ took' = [u \in 1..N |-> IF u \in got THEN "ok" ELSE "connect_fail"]
            /\ pc' = "crashed"
            /\ summary' = summary
    /\ UNCHANGED <<cfgvars, runvars, i, inflight, dirs, downloaded, failed,
                   verified, expected_md5, listcalls, listing>>

(***************************************************************************)
(* The environment: the process is terminated from outside while it runs,  *)
(* and the script is invoked again after an invocation has ended.          *)
(***************************************************************************)
\* the exit status of an invocation that ended at control point p: 0 when main
\* returned, 1 after sys.exit(1) and after an uncaught exception
ExitStatus(p) == IF p = "done" THEN 0 ELSE 1

Kill ==
    /\ pc \in Running
    /\ pc' = "killed"
    /\ UNCHANGED <<cfgvars, runvars, i, inflight, fs, dirs, downloaded,
                   failed, verified, expected_md5, took, netcalls, listcalls, listing, summary>>

Restart ==
    /\ pc \in Ended
    /\ run < MaxRuns
    /\ run' = run + 1
    /\ prev_pc' = pc
    /\ fs0' = fs /\ dirs0' = dirs
    /\ pc' = "start" /\ i' = 1 /\ inflight' = "none"
    /\ downloaded' = 0 /\ failed' = 0 /\ verified' = 0
    /\ expected_md5' = NoMd5
    /\ took' = [u \in 1..N |-> "none"]
    /\ netcalls' = [u \in 1..N |-> 0]
    /\ listcalls' = 0 /\ listing' = "none"
    /\ summary' = NoSummary
    /\ UNCHANGED <<cfgvars, fs, dirs>>

Next ==
    \/ stackexchange_main
    \/ stackexchange_download_file
    \/ stackexchange_curl_exit
    \/ uspto_main
    \/ uspto_download_file
    \/ uspto_curl_exit
    \/ pubmed_main
    \/ pubmed_download_file
    \/ pubmed_curl_exit
    \/ pubmed_verify
    \/ pmc_main
    \/ download_package
    \/ pmc_curl_exit
    \/ edgar_main
    \/ download_filing
    \/ edgar_sec_request
    \/ edgar_write_bytes
    \/ ccnews_main
    \/ download_warc
    \/ ccnews_curl_exit
    \/ s2_main
    \/ download_dataset
    \/ s2_curl_exit
    \/ nycourts_main
    \/ crawl_court_year
    \/ download_opinion
    \/ docling_main
    \/ download_parquets
    \/ docling_hf_hub_download
    \/ courtlistener_main
    \/ download_opinions
    \/ govinfo_main
    \/ download_recursive
    \/ fineweb_main
    \/ download_subset
    \/ Kill
    \/ Restart

Spec == Init /\ [][Next]_vars

\* a step of the script itself: the interpreter goes on running main until
\* main returns, sys.exit is called or an exception leaves main; the kill and
\* the next invocation come from outside and may never happen
ScriptStep == Next /\ pc' # "killed" /\ run' = run

FairSpec == Spec /\ WF_vars(ScriptStep)

(***************************************************************************)
(* The parts of the scripts outside the download loop are modelled by      *)
(* specifications of their own; they share script, pc and i (the index of  *)
(* the loop at hand) with the loops above, whose other variables stay at   *)
(* rest.                                                                   *)
(***************************************************************************)
MainIdle ==
    /\ dry_run = FALSE /\ verify = FALSE /\ has_cred = TRUE
    /\ listed_size = 0
    /\ run = 1 /\ prev_pc = "none"
    /\ inflight = "none"
    /\ fs = NoFiles /\ dirs = {"storage"}
    /\ fs0 = fs /\ dirs0 = dirs
    /\ downloaded = 0 /\ failed = 0 /\ verified = 0
    /\ expected_md5 = NoMd5
    /\ took = [u \in 1..N |-> "none"]
    /\ netcalls = [u \in 1..N |-> 0]
    /\ listcalls = 0 /\ listing = "none"
    /\ summary = NoSummary

(***************************************************************************)
(* config.py: _load_env                                                    *)
(***************************************************************************)
MaxLines == 3      \* lines in the .env file: 0..MaxLines

EnvKeys == {"A", "B"}
EnvVals == {"x", "y"}

\* A line of .env after line.strip(): blank, a comment, a line without "=",
\* or key=val (key and val stripped; the key may be empty, as in "=x").
EnvLines ==
    {[kind |-> "blank"], [kind |-> "comment"], [kind |-> "noeq"]}
    \cup {[kind |-> "assign", key |-> k, val |-> v] :
             k \in EnvKeys \cup {""}, v \in EnvVals}

\* the environments over EnvKeys
Environs ==
    UNION {[K -> EnvVals] : K \in SUBSET EnvKeys}

RECURSIVE SeqsUpTo(_, _)
SeqsUpTo(S, n) ==
    IF n = 0 THEN {<<>>}
    ELSE LET shorter == SeqsUpTo(S, n - 1)
         IN shorter \cup {Append(q, x) : q \in shorter, x \in S}

\* the body of the loop of _load_env without the test 'key not in os.environ'
load_env_line_overwrite(env, l) ==
    IF l.kind = "assign" /\ l.key # ""
    THEN [k \in DOMAIN env \cup {l.key} |-> IF k = l.key THEN l.val ELSE env[k]]
    ELSE env

\* the body of the loop of _load_env for one line
load_env_line(env, l) ==
    IF l.kind = "assign" /\ l.key # "" /\ l.key \notin DOMAIN env
    THEN [k \in DOMAIN env \cup {l.key} |-> IF k = l.key THEN l.val ELSE env[k]]
    ELSE env

\* config is imported (by any script); a missing .env is a file of no lines
InitEnv ==
    /\ script = "config"
    /\ pc = "load_env" /\ i = 1
    /\ N = 0 /\ MainIdle
    /\ environ0 \in Environs
    /\ environ = environ0
    /\ dotenv \in SeqsUpTo(EnvLines, MaxLines)
    /\ PathsIdle /\ RateIdle /\ LimitIdle /\ IndexIdle /\ MoreIdle

\* one iteration of the loop over the lines of .env
load_env ==
    /\ pc = "load_env"
    /\ IF i <= Len(dotenv)
       THEN /\ environ' = load_env_line(environ, dotenv[i])
            /\ i' = i + 1
            /\ pc' = pc
       ELSE /\ pc' = "env_loaded"
            /\ UNCHANGED <<environ, i>>
    /\ UNCHANGED <<script, mainrest, environ0, dotenv, pathvars, ratevars, limitvars, indexvars, morevars>>

NextEnv == load_env

SpecEnv == InitEnv /\ [][NextEnv]_vars

(***************************************************************************)
(* Local target paths.  A path is what pathlib keeps of it: whether it is  *)
(* absolute, and its segments.                                             *)
(***************************************************************************)
\* pathlib's base / name: an absolute name replaces the base
Join(base, name) ==
    IF name.abs THEN name
    ELSE [abs |-> base.abs, segs |-> base.segs \o name.segs]

\* the segments of the place the operating system resolves a path to: a ".."
\* leaves the directory reached so far (and stays at the root)
RECURSIVE Resolve(_, _)
Resolve(segs, reached) ==
    IF segs = <<>> THEN reached
    ELSE IF Head(segs) = ".."
    THEN Resolve(Tail(segs),
                 IF reached = <<>> THEN reached
                 ELSE SubSeq(reached, 1, Len(reached) - 1))
    ELSE Resolve(Tail(segs), Append(reached, Head(segs)))

\* config.storage_dir(source): the configured storage root, then the source
StorageRoot == [abs |-> TRUE, segs |-> <<"storage">>]
storage_dir(source) == Join(StorageRoot, [abs |-> FALSE, segs |-> <<source>>])
FILINGS_DIR == Join(storage_dir("edgar"), [abs |-> FALSE, segs |-> <<"filings">>])

\* names a remote index or listing can carry: master.idx's filename field is
\* any text without "|", an href of the archive listing any text ending in .7z
PathNames ==
    {[abs |-> FALSE, segs |-> <<"a">>],
     [abs |-> FALSE, segs |-> <<"d", "..", "a">>],
     [abs |-> FALSE, segs |-> <<"..", "a">>],
     [abs |-> FALSE, segs |-> <<"..", "..", "..", "a">>],
     [abs |-> TRUE, segs |-> <<"etc", "a">>]}

\* The units of a listing: a download URL of the S2 API with the last segment
\* of its path (empty when the path ends in "/"), or a row of a DocLayNet
\* parquet with its page_hash (empty when the metadata has none).
PathUnits ==
    {[id |-> 1, name |-> "f"], [id |-> 2, name |-> ""], [id |-> 3, name |-> ""]}

\* the listings: the units in any order, none twice
Plans ==
    {q \in SeqsUpTo(PathUnits, Cardinality(PathUnits)) :
        \A a, b \in 1..Len(q) : a # b => q[a] # q[b]}

\* download_dataset: the filename for the link at position k of enumerate
s2_filename(url, k) ==
    IF url.name # "" THEN <<url.name>> ELSE <<"part", k>>

\* extract_pdfs_doclaynet: meta.get("page_hash", f"unknown_{count:06d}")
doclaynet_page_hash(meta, n) ==
    IF meta.name # "" THEN <<meta.name>> ELSE <<"unknown", n>>

InitPaths ==
    /\ script \in {"semantic_scholar", "docling", "edgar", "stackexchange"}
    /\ pc = "paths" /\ i = 1
    /\ N = 0 /\ MainIdle /\ EnvIdle /\ RateIdle /\ LimitIdle /\ IndexIdle /\ MoreIdle
    /\ count = 0
    /\ derived = [u \in PathUnitIds |-> {}]
    /\ extracted = {}
    /\ written = {}
    /\ IF script \in {"semantic_scholar", "docling"}
       THEN links \in Plans /\ filename = NoName
       ELSE links = <<>> /\ filename \in PathNames

\* download_dataset, one iteration of its loop: the filename and dest of the
\* link at hand; the file is there afterwards unless the download fails
s2_dest ==
    /\ script = "semantic_scholar" /\ pc = "paths"
    /\ i <= Len(links)
    /\ LET dest == s2_filename(links[i], i - 1)
       IN /\ derived' = [derived EXCEPT ![links[i].id] = @ \cup {dest}]
          /\ \E fetched \in BOOLEAN :
               extracted' = IF fetched THEN extracted \cup {dest} ELSE extracted
    /\ i' = i + 1
    /\ UNCHANGED <<script, pc, mainrest, envvars, ratevars, limitvars, indexvars, morevars, links, count, filename, written>>

\* extract_pdfs_doclaynet, one iteration of its loop
extract_pdfs_doclaynet ==
    /\ script = "docling" /\ pc = "paths"
    /\ i <= Len(links)
    /\ LET dest == doclaynet_page_hash(links[i], count)
       IN /\ derived' = [derived EXCEPT ![links[i].id] = @ \cup {dest}]
          /\ IF dest \in extracted
             THEN UNCHANGED <<extracted, count>>
             ELSE extracted' = extracted \cup {dest} /\ count' = count + 1
    /\ i' = i + 1
    /\ UNCHANGED <<script, pc, mainrest, envvars, ratevars, limitvars, indexvars, morevars, links, filename, written>>

\* the loop is over; the script is run again, over the same listing or over
\* another listing of these units
paths_rerun ==
    /\ script \in {"semantic_scholar", "docling"} /\ pc = "paths"
    /\ i > Len(links)
    /\ links' \in Plans
    /\ i' = 1 /\ count' = 0
    /\ UNCHANGED <<script, pc, mainrest, envvars, ratevars, limitvars, indexvars, morevars, derived, extracted, filename, written>>

\* edgar download_filing for the record at hand: dest = FILINGS_DIR / filename
\* is written when the request succeeds; then main's loop takes the next record
edgar_dest ==
    /\ script = "edgar" /\ pc = "paths"
    /\ \E fetched \in BOOLEAN :
         written' = IF fetched
                    THEN written \cup {Resolve(Join(FILINGS_DIR, filename).segs, <<>>)}
                    ELSE written
    /\ filename' \in PathNames
    /\ UNCHANGED <<script, pc, i, mainrest, envvars, ratevars, limitvars, indexvars, morevars, links, count, derived, extracted>>

\* stackexchange download_file: curl -o dest with dest = dest_dir / filename
stackexchange_dest ==
    /\ script = "stackexchange" /\ pc = "paths"
    /\ \E fetched \in BOOLEAN :
         written' = IF fetched
                    THEN written \cup
                         {Resolve(Join(storage_dir("stackexchange"), filename).segs, <<>>)}
                    ELSE written
    /\ filename' \in PathNames
    /\ UNCHANGED <<script, pc, i, mainrest, envvars, ratevars, limitvars, indexvars, morevars, links, count, derived, extracted>>

NextPaths ==
    \/ s2_dest
    \/ extract_pdfs_doclaynet
    \/ paths_rerun
    \/ edgar_dest
    \/ stackexchange_dest

SpecPaths == InitPaths /\ [][NextPaths]_vars

(***************************************************************************)
(* Rate limiting: the network calls and the sleeps of edgar/stage.py (one  *)
(* quarter of filings), courtlistener_download.py and nycourts/stage.py    *)
(* (one index page), over a listing of N units not yet on disk.            *)
(***************************************************************************)
RateCourts == 2    \* courts in NY_COURTS (scaled down)
Retries == 3       \* fetch(url, retries=3)

\* a network call is issued; sleeps_first: the code sleeps just before it
NetworkCall(sleeps_first) ==
    /\ called' = TRUE
    /\ paused_before' = (~called \/ slept \/ sleeps_first)

InitRate ==
    /\ script \in {"edgar", "courtlistener", "nycourts"}
    /\ N \in 0..MaxUnits
    /\ pc = (IF script = "nycourts" THEN "fetch_index" ELSE "rate_start")
    /\ i = 1
    /\ MainIdle /\ EnvIdle /\ PathsIdle /\ RateIdle /\ LimitIdle /\ IndexIdle /\ MoreIdle

\* edgar download_index: _sec_request sleeps 0.11 s, then calls urlopen; a
\* quarter without index is passed over
rate_download_index ==
    /\ script = "edgar" /\ pc = "rate_start"
    /\ NetworkCall(TRUE) /\ slept' = FALSE
    /\ \E fetched \in BOOLEAN :
         pc' = IF fetched /\ N > 0 THEN "rate_loop" ELSE "rate_done"
    /\ UNCHANGED <<script, i, mainrest, envvars, pathvars, limitvars, indexvars, morevars, attempt, court>>

\* edgar download_filing for the next record: _sec_request again
rate_download_filing ==
    /\ script = "edgar" /\ pc = "rate_loop"
    /\ NetworkCall(TRUE) /\ slept' = FALSE
    /\ i' = i + 1
    /\ pc' = IF i + 1 > N THEN "rate_done" ELSE "rate_loop"
    /\ UNCHANGED <<script, mainrest, envvars, pathvars, limitvars, indexvars, morevars, attempt, court>>

\* courtlistener main calls download_opinions for the next court
rate_courtlistener_main ==
    /\ script = "courtlistener" /\ pc = "rate_start"
    /\ pc' = "rate_loop" /\ i' = 1
    /\ UNCHANGED <<script, mainrest, envvars, pathvars, limitvars, indexvars, morevars, ratevars>>

\* download_opinions, one pass of the page loop: requests.get; on success
\* the opinions are written and time.sleep(1) runs; an exception breaks out
\* of the loop.  Then the next page, the next court, or the end of main.
rate_download_opinions ==
    /\ script = "courtlistener" /\ pc = "rate_loop"
    /\ NetworkCall(FALSE)
    /\ \E answered \in BOOLEAN :
         /\ slept' = answered
         /\ IF answered /\ i < N
            THEN i' = i + 1 /\ pc' = pc /\ court' = court
            ELSE /\ i' = 1
                 /\ IF court < RateCourts
                    THEN court' = court + 1 /\ pc' = "rate_start"
                    ELSE court' = court /\ pc' = "rate_done"
    /\ UNCHANGED <<script, mainrest, envvars, pathvars, limitvars, indexvars, morevars, attempt>>

\* nycourts fetch, one attempt: requests.get, and a second requests.get at
\* once when the answer is a redirect; an exception is followed by
\* time.sleep(2) and another attempt, or by return None after the last one.
\* After the fetch of the index page crawl_index_page goes through the links;
\* after the fetch of a document it sleeps 0.3 s and takes the next link.
fetch ==
    /\ script = "nycourts" /\ pc \in {"fetch_index", "fetch_document"}
    /\ called' = TRUE
    /\ \E redirected \in BOOLEAN, answered \in BOOLEAN :
         /\ paused_before' = IF redirected THEN FALSE ELSE (~called \/ slept)
         /\ IF ~answered /\ attempt < Retries
            THEN /\ slept' = TRUE
                 /\ attempt' = attempt + 1
                 /\ UNCHANGED <<pc, i>>
            ELSE /\ attempt' = 1
                 /\ IF pc = "fetch_index"
                    THEN /\ slept' = FALSE
                         /\ i' = 1
                         /\ pc' = IF answered /\ N > 0 THEN "fetch_document"
                                  ELSE "rate_done"
                    ELSE /\ slept' = TRUE
                         /\ i' = i + 1
                         /\ pc' = IF i + 1 > N THEN "rate_done" ELSE pc
    /\ UNCHANGED <<script, mainrest, envvars, pathvars, limitvars, indexvars, morevars, court>>

NextRate ==
    \/ rate_download_index
    \/ rate_download_filing
    \/ rate_courtlistener_main
    \/ rate_download_opinions
    \/ fetch

SpecRate == InitRate /\ [][NextRate]_vars

(***************************************************************************)
(* --limit in edgar/stage.py (quarters), eurlex/stage.py (document types)  *)
(* and ccnews/stage.py (months): each group lists N units, none on disk.   *)
(***************************************************************************)
MaxGroups == 2     \* quarters, document types or months in one invocation
MaxLimit == 2      \* values of --limit: 0..MaxLimit
DefaultLimit == 2  \* eurlex: add_argument("--limit", default=100), scaled down

\* args.limit after parse_args
args_limit(sc, given) ==
    IF given = NoLimit /\ sc = "eurlex" THEN DefaultLimit ELSE given

\* len(xs[:l] if l else xs) for a list xs of n units ("if args.limit:" is
\* false for None and for 0)
Sliced(n, l) ==
    IF l # NoLimit /\ l # 0 THEN (IF n < l THEN n ELSE l) ELSE n

InitLimit ==
    /\ script \in {"edgar", "eurlex", "ccnews"}
    /\ N \in 0..MaxUnits
    /\ pc = "limit_group" /\ i = 1
    /\ MainIdle /\ EnvIdle /\ PathsIdle /\ RateIdle /\ IndexIdle /\ MoreIdle
    /\ limit \in {NoLimit} \cup (0..MaxLimit)
    /\ groups \in 1..MaxGroups
    /\ g = 1 /\ todo = 0 /\ enumerated = 0 /\ units_fetched = 0

\* main's loop goes on to the next group, or main ends
NextGroup ==
    /\ i' = 1
    /\ IF g < groups THEN g' = g + 1 /\ pc' = "limit_group"
                     ELSE g' = g /\ pc' = "limit_done"

\* the list of group g is there: the limit is applied to it and the download
\* loop over it begins
LimitApplied ==
    /\ enumerated' = enumerated + N
    /\ todo' = Sliced(N, args_limit(script, limit))
    /\ IF todo' = 0 THEN NextGroup
       ELSE i' = 1 /\ g' = g /\ pc' = "limit_loop"

\* edgar main, one quarter up to the download loop: a quarter whose index
\* cannot be fetched is passed over
edgar_quarter ==
    /\ script = "edgar" /\ pc = "limit_group"
    /\ \E indexed \in BOOLEAN :
         IF indexed THEN LimitApplied
         ELSE NextGroup /\ UNCHANGED <<todo, enumerated>>
    /\ UNCHANGED <<script, mainrest, envvars, pathvars, ratevars, indexvars, morevars, limit, groups, units_fetched>>

\* eurlex main, one document type up to the download loop: list_celex_ids
\* raises when the query fails
eurlex_doc_type ==
    /\ script = "eurlex" /\ pc = "limit_group"
    /\ \E listed \in BOOLEAN :
         IF listed THEN LimitApplied
         ELSE pc' = "crashed" /\ UNCHANGED <<i, g, todo, enumerated>>
    /\ UNCHANGED <<script, mainrest, envvars, pathvars, ratevars, indexvars, morevars, limit, groups, units_fetched>>

\* ccnews main, one month up to the download loop: fetch_warc_paths returns
\* [] when the index cannot be fetched
ccnews_month ==
    /\ script = "ccnews" /\ pc = "limit_group"
    /\ \E indexed \in BOOLEAN :
         IF indexed THEN LimitApplied
         ELSE NextGroup /\ UNCHANGED <<todo, enumerated>>
    /\ UNCHANGED <<script, mainrest, envvars, pathvars, ratevars, indexvars, morevars, limit, groups, units_fetched>>

\* one iteration of the download loop of the group: download_filing,
\* download_celex_document or download_warc is called for the next unit
limit_download ==
    /\ script \in {"edgar", "eurlex", "ccnews"} /\ pc = "limit_loop"
    /\ units_fetched' = units_fetched + 1
    /\ IF i + 1 > todo THEN NextGroup
       ELSE i' = i + 1 /\ g' = g /\ pc' = pc
    /\ UNCHANGED <<script, mainrest, envvars, pathvars, ratevars, indexvars, morevars, limit, groups, todo,
                   enumerated>>

NextLimit ==
    \/ edgar_quarter
    \/ eurlex_doc_type
    \/ ccnews_month
    \/ limit_download

SpecLimit == InitLimit /\ [][NextLimit]_vars

(***************************************************************************)
(* The index cache: ccnews fetch_warc_paths, and edgar download_index with *)
(* the parse_index that main applies to the file it returns.  An index     *)
(* text is a sequence of characters; "a" stands for any character that is  *)
(* neither a line end nor white space.                                     *)
(***************************************************************************)
MaxText == 3    \* characters in the index text the server holds: 0..MaxText
MaxEnums == 2   \* enumerations of the same month or quarter

LF == "LF"
CR == "CR"
Chars == {"a", LF, CR}
Texts == UNION {[1..n -> Chars] : n \in 0..MaxText}

\* what open(..., "r") with newline=None hands to the reader (Path.read_text):
\* "\r\n" and a lone "\r" are read as "\n"
RECURSIVE read_text(_)
read_text(t) ==
    IF t = <<>> THEN <<>>
    ELSE IF t[1] = CR
         THEN IF Len(t) >= 2 /\ t[2] = LF
              THEN <<LF>> \o read_text(SubSeq(t, 3, Len(t)))
              ELSE <<LF>> \o read_text(Tail(t))
         ELSE <<t[1]>> \o read_text(Tail(t))

\* str.strip(): leading and trailing white space removed
RECURSIVE strip(_)
strip(t) ==
    IF t = <<>> THEN <<>>
    ELSE IF t[1] \in {LF, CR} THEN strip(Tail(t))
    ELSE IF t[Len(t)] \in {LF, CR} THEN strip(SubSeq(t, 1, Len(t) - 1))
    ELSE t

\* str.split("\n"): the empty text splits into one empty string
RECURSIVE split(_)
split(t) ==
    IF \A k \in 1..Len(t) : t[k] # LF THEN <<t>>
    ELSE LET k == CHOOSE j \in 1..Len(t) :
                      t[j] = LF /\ \A h \in 1..(j - 1) : t[h] # LF
         IN <<SubSeq(t, 1, k - 1)>> \o split(SubSeq(t, k + 1, Len(t)))

RECURSIVE records_of(_)
records_of(ls) ==
    IF ls = <<>> THEN <<>>
    ELSE IF strip(ls[1]) = <<>> THEN records_of(Tail(ls))
    ELSE <<strip(ls[1])>> \o records_of(Tail(ls))

\* parse_index on the cache file: read_text, split into lines, and of every
\* line that holds fields the stripped fields (the header lines, which the
\* function passes over, are left out of the text)
parse_index(t) == records_of(split(read_text(t)))

\* the units that an enumeration draws from the cache file
EnumerateCached(sc, t) ==
    IF sc = "ccnews" THEN split(strip(read_text(t))) ELSE parse_index(t)

\* the text the function writes to the cache: ccnews writes the decoded and
\* stripped text with write_text (which leaves "\r" as it is), edgar the
\* bytes of the response
CacheText(sc, t) == IF sc = "ccnews" THEN strip(t) ELSE t

InitIndex ==
    /\ script \in {"ccnews", "edgar"}
    /\ pc = "index_start" /\ i = 1 /\ N = 0
    /\ MainIdle /\ EnvIdle /\ PathsIdle /\ RateIdle /\ LimitIdle /\ MoreIdle
    /\ remote \in Texts
    /\ index_file = NoIndexFile /\ paths = <<>>
    /\ index_calls = 0 /\ was_cached = FALSE /\ enum = 1 /\ prev_enum = NoEnum

\* index_file.exists() / dest.exists(): a cache file that is there is used
\* as it is
index_exists ==
    /\ pc = "index_start"
    /\ was_cached' = index_file.exists
    /\ IF index_file.exists
       THEN /\ paths' = EnumerateCached(script, index_file.text)
            /\ pc' = "index_returned"
       ELSE /\ paths' = paths
            /\ pc' = "index_request"
    /\ UNCHANGED <<script, i, mainrest, envvars, pathvars, ratevars, limitvars, morevars,
                   remote, index_file, index_calls, enum, prev_enum>>

\* urlopen (and decompressing, decoding) inside the try: an exception is
\* logged and the function returns [] or None; otherwise the cache file is
\* opened for writing, which creates it empty
index_urlopen ==
    /\ pc = "index_request"
    /\ index_calls' = index_calls + 1
    /\ \E answered \in BOOLEAN :
         IF answered
         THEN /\ index_file' = [exists |-> TRUE, text |-> <<>>]
              /\ pc' = "index_write"
         ELSE /\ index_file' = index_file
              /\ pc' = "index_failed"
    /\ UNCHANGED <<script, i, mainrest, envvars, pathvars, ratevars, limitvars, morevars,
                   remote, paths, was_cached, enum, prev_enum>>

\* write_text / write_bytes inside the same try: an OSError while writing
\* (disk full, I/O error) is caught like a failed request, and what was
\* written by then stays; otherwise the function returns the units
index_write ==
    /\ pc = "index_write"
    /\ LET data == CacheText(script, remote) IN
       \E written_len \in 0..Len(data), oserror \in BOOLEAN :
         IF oserror
         THEN /\ index_file' = [exists |-> TRUE, text |-> SubSeq(data, 1, written_len)]
              /\ paths' = paths
              /\ pc' = "index_failed"
         ELSE /\ written_len = Len(data)
              /\ index_file' = [exists |-> TRUE, text |-> data]
              /\ paths' = IF script = "ccnews" THEN split(data) ELSE parse_index(data)
              /\ pc' = "index_returned"
    /\ UNCHANGED <<script, i, mainrest, envvars, pathvars, ratevars, limitvars, morevars,
                   remote, index_calls, was_cached, enum, prev_enum>>

\* the same month or quarter is enumerated again (a later invocation)
index_again ==
    /\ pc \in {"index_returned", "index_failed"}
    /\ enum < MaxEnums
    /\ enum' = enum + 1
    /\ prev_enum' = [pc |-> pc, paths |-> paths]
    /\ paths' = <<>> /\ index_calls' = 0 /\ was_cached' = FALSE
    /\ pc' = "index_start"
    /\ UNCHANGED <<script, i, mainrest, envvars, pathvars, ratevars, limitvars, morevars,
                   remote, index_file>>

NextIndex ==
    \/ index_exists
    \/ index_urlopen
    \/ index_write
    \/ index_again

SpecIndex == InitIndex /\ [][NextIndex]_vars

(***************************************************************************)
(* courtlistener/import_data.py and import_data_nas.py: main imports the   *)
(* CSV files of FILES, in the order of the dict, over one connection.      *)
(***************************************************************************)
oldaux == <<envvars, pathvars, ratevars, limitvars, indexvars>>

\* the keys of FILES, in insertion order
FILES == <<"courts", "dockets", "opinion_clusters", "opinions", "citation_map">>

\* REFERENCES of SCHEMA_SQL: the tables a table's foreign keys point to
References(t) ==
    CASE t = "courts" -> {"courts"}
      [] t = "dockets" -> {"courts", "dockets"}
      [] t = "opinion_clusters" -> {"dockets"}
      [] t = "opinions" -> {"opinion_clusters"}
      [] t = "citation_map" -> {"opinions"}

InitImport ==
    /\ script \in {"import_data", "import_data_nas"}
    /\ pc = "import_csv" /\ i = 1 /\ N = 0
    /\ MainIdle /\ EnvIdle /\ PathsIdle /\ RateIdle /\ LimitIdle /\ IndexIdle
    /\ BesideImportIdle
    /\ missing_csv \in SUBSET {FILES[k] : k \in 1..Len(FILES)}
    /\ invoked = <<>> /\ pending = "none" /\ committed = {}
    /\ raised = "none" /\ rollbacks = 0 /\ success_printed = FALSE

\* a handler that rolls back and prints but does not re-raise
ImportSwallows ==
    /\ rollbacks' = rollbacks + 1
    /\ pending' = "none"
    /\ raised' = FILES[i]
    /\ pc' = "import_csv"
    /\ i' = i + 1

\* except Exception: conn.rollback(); print; raise -- and main's finally
\* closes the connection while the exception leaves main
ImportRaises ==
    /\ rollbacks' = rollbacks + 1
    /\ pending' = "none"
    /\ raised' = FILES[i]
    /\ pc' = "crashed"
    /\ i' = i

\* main's loop calls import_csv for the next table, which returns at once
\* when the CSV file is not there; after the last table main prints the
\* success line
import_csv ==
    /\ pc = "import_csv"
    /\ IF i > Len(FILES)
       THEN /\ success_printed' = TRUE
            /\ pc' = "import_done"
            /\ UNCHANGED <<i, invoked>>
       ELSE /\ invoked' = Append(invoked, FILES[i])
            /\ success_printed' = success_printed
            /\ IF FILES[i] \in missing_csv
               THEN pc' = pc /\ i' = i + 1
               ELSE pc' = "copy_expert" /\ i' = i
    /\ UNCHANGED <<script, mainrest, oldaux, beside_import, missing_csv, pending, committed, raised,
                   rollbacks>>

\* cur.copy_expert(COPY ... FROM STDIN): the rows are in the open transaction,
\* or the statement raises (a malformed row, a key that is there already, a
\* foreign key without its row)
copy_expert ==
    /\ pc = "copy_expert"
    /\ \E copied \in BOOLEAN :
         IF copied
         THEN /\ pending' = FILES[i]
              /\ pc' = "commit" /\ i' = i
              /\ UNCHANGED <<raised, rollbacks>>
         ELSE ImportRaises
    /\ UNCHANGED <<script, mainrest, oldaux, beside_import, missing_csv, invoked, committed,
                   success_printed>>

\* conn.commit()
commit ==
    /\ pc = "commit"
    /\ \E done \in BOOLEAN :
         IF done
         THEN /\ committed' = committed \cup {pending}
              /\ pending' = "none"
              /\ pc' = "count" /\ i' = i
              /\ UNCHANGED <<raised, rollbacks>>
         ELSE ImportRaises /\ committed' = committed
    /\ UNCHANGED <<script, mainrest, oldaux, beside_import, missing_csv, invoked, success_printed>>

\* cur.execute(SELECT COUNT(*)), still inside the try: when it raises (the
\* connection is lost, the statement is cancelled) the rollback finds
\* nothing to undo
count_rows ==
    /\ pc = "count"
    /\ \E counted \in BOOLEAN :
         IF counted
         THEN /\ pc' = "import_csv" /\ i' = i + 1
              /\ UNCHANGED <<pending, raised, rollbacks>>
         ELSE ImportRaises
    /\ UNCHANGED <<script, mainrest, oldaux, beside_import, missing_csv, invoked, committed,
                   success_printed>>

NextImport ==
    \/ import_csv
    \/ copy_expert
    \/ commit
    \/ count_rows

SpecImport == InitImport /\ [][NextImport]_vars

(***************************************************************************)
(* nycourts/stage.py: main's loop over COURTS and crawl_court_archives.    *)
(* crawl_index_page is taken by the count it returns.                      *)
(***************************************************************************)
MaxNow == 14    \* datetime.now() is 0..MaxNow months after October 2003

\* the month n months after October 2003
MonthAt(n) == [year |-> 2003 + ((9 + n) \div 12), month |-> ((9 + n) % 12) + 1]

InitArchive ==
    /\ script = "nycourts"
    /\ pc = "archives_main" /\ i = 1 /\ N = 0
    /\ MainIdle /\ EnvIdle /\ PathsIdle /\ RateIdle /\ LimitIdle /\ IndexIdle
    /\ BesideArchiveIdle
    /\ now \in {MonthAt(n) : n \in 0..MaxNow}
    /\ year = 2003 /\ month = 10
    /\ visited = <<>> /\ court_total = 0 /\ archive_total = 0

\* main: the next court's crawl_court_archives is called and runs up to its
\* while loop; after the last court main prints the totals
archives_main ==
    /\ pc = "archives_main"
    /\ IF i > RateCourts
       THEN /\ pc' = "archives_done"
            /\ UNCHANGED <<year, month, visited, court_total>>
       ELSE /\ year' = 2003 /\ month' = 10
            /\ visited' = <<>>
            /\ court_total' = 0
            /\ pc' = "archive_while"
    /\ UNCHANGED <<script, i, mainrest, oldaux, beside_archive, now, archive_total>>

\* the while loop from its test: one pass through the body ends in break
archive_while ==
    /\ pc = "archive_while"
    /\ IF year < now.year \/ (year = now.year /\ month <= now.month)
       THEN \E cnt \in 0..MaxUnits :
              /\ visited' = Append(visited, [year |-> year, month |-> month])
              /\ court_total' = court_total + cnt
              /\ IF month + 1 > 12
                 THEN month' = 1 /\ year' = year + 1
                 ELSE month' = month + 1 /\ year' = year
       ELSE UNCHANGED <<visited, court_total, month, year>>
    /\ pc' = "archive_return"
    /\ UNCHANGED <<script, i, mainrest, oldaux, beside_archive, now, archive_total>>

\* return total, and main adds it to its own total
archive_return ==
    /\ pc = "archive_return"
    /\ archive_total' = archive_total + court_total
    /\ i' = i + 1
    /\ pc' = "archives_main"
    /\ UNCHANGED <<script, mainrest, oldaux, beside_archive, now, year, month, visited,
                   court_total>>

NextArchive ==
    \/ archives_main
    \/ archive_while
    \/ archive_return

SpecArchive == InitArchive /\ [][NextArchive]_vars

(***************************************************************************)
(* uspto/stage.py: main's "Fetch all files with pagination" loop and       *)
(* get_product_files, against a server that holds files 1..file_count and  *)
(* answers a request for (offset, limit) with the files after the first    *)
(* offset ones, at most min(limit, server_cap) of them.                    *)
(***************************************************************************)
page_size == 2    \* main: page_size = 100, scaled down
MaxFiles == 6     \* files of the product: 0..MaxFiles

\* fileDataBag of the answer to get_product_files(product_id, off, lim)
fileDataBag(off, lim) ==
    LET most == IF lim < server_cap THEN lim ELSE server_cap
        left == IF file_count > off THEN file_count - off ELSE 0
    IN [k \in 1..(IF left < most THEN left ELSE most) |-> off + k]

InitUspto ==
    /\ script = "uspto"
    /\ pc = "get_product_files" /\ i = 1 /\ N = 0
    /\ MainIdle /\ EnvIdle /\ PathsIdle /\ RateIdle /\ LimitIdle /\ IndexIdle
    /\ BesideUsptoIdle
    /\ file_count \in 0..MaxFiles
    /\ server_cap \in 1..(page_size + 1)
    /\ offset = 0 /\ all_files = <<>> /\ offsets = <<>> /\ consecutive = TRUE

\* the loop with an offset that moves on by one more than page_size
get_product_files_skips ==
    /\ pc = "get_product_files"
    /\ offsets' = Append(offsets, offset)
    /\ \E answer \in {"ok", "not_found", "error"} :
         CASE answer = "error" ->
                pc' = "crashed" /\ UNCHANGED <<offset, all_files, consecutive>>
           [] answer = "not_found" ->
                pc' = "exit1" /\ UNCHANGED <<offset, all_files, consecutive>>
           [] OTHER ->
                LET files == fileDataBag(offset, page_size) IN
                /\ all_files' = all_files \o files
                /\ consecutive' = (consecutive /\
                                      files = fileDataBag(Len(all_files), page_size))
                /\ IF Len(all_files') >= file_count \/ files = <<>>
                   THEN pc' = "files_listed" /\ offset' = offset
                   ELSE pc' = pc /\ offset' = offset + page_size + 1
    /\ UNCHANGED <<script, i, mainrest, oldaux, beside_uspto, file_count, server_cap>>

\* one pass of the while True loop: the request raises, or the product is
\* not found (sys.exit(1)), or the page is appended and the loop ends or
\* goes on with offset + page_size
get_product_files ==
    /\ pc = "get_product_files"
    /\ offsets' = Append(offsets, offset)
    /\ \E answer \in {"ok", "not_found", "error"} :
         CASE answer = "error" ->
                pc' = "crashed" /\ UNCHANGED <<offset, all_files, consecutive>>
           [] answer = "not_found" ->
                pc' = "exit1" /\ UNCHANGED <<offset, all_files, consecutive>>
           [] OTHER ->
                LET files == fileDataBag(offset, page_size) IN
                /\ all_files' = all_files \o files
                /\ consecutive' = (consecutive /\
                                      files = fileDataBag(Len(all_files), page_size))
                /\ IF Len(all_files') >= file_count \/ files = <<>>
                   THEN pc' = "files_listed" /\ offset' = offset
                   ELSE pc' = pc /\ offset' = offset + page_size
    /\ UNCHANGED <<script, i, mainrest, oldaux, beside_uspto, file_count, server_cap>>

NextUspto == get_product_files

SpecUspto == InitUspto /\ [][NextUspto]_vars

(***************************************************************************)
(* nycourts/stage.py: fetch(url, retries) and download_document            *)
(***************************************************************************)
MaxRetries == 4    \* fetch is called with retries in 0..MaxRetries

\* how one attempt can go: a 2xx answer; a redirect whose second request
\* gives a 2xx answer; a redirect whose second request fails (also for a
\* missing Location); a status that raise_for_status rejects; an exception
\* of requests.get (connection, timeout)
AttemptOutcomes == {"ok", "redirect_ok", "redirect_fail", "http_error", "exception"}
AttemptSucceeds == {"ok", "redirect_ok"}

InitFetch ==
    /\ script = "nycourts"
    /\ pc = "fetch_attempt" /\ i = 1 /\ N = 0
    /\ MainIdle /\ EnvIdle /\ PathsIdle /\ RateIdle /\ LimitIdle /\ IndexIdle
    /\ BesideFetchIdle
    /\ retries \in 0..MaxRetries
    /\ tried = <<>> /\ sleeps = 0 /\ result = "none" /\ saved = FALSE

\* fetch with the sleep ahead of the test for the last attempt
fetch_attempt_sleeps_last ==
    /\ pc = "fetch_attempt"
    /\ IF Len(tried) >= retries
       THEN /\ result' = "None" /\ pc' = "fetch_returned"
            /\ UNCHANGED <<tried, sleeps>>
       ELSE \E went \in AttemptOutcomes :
              /\ tried' = Append(tried, went)
              /\ IF went \in AttemptSucceeds
                 THEN /\ result' = "response" /\ pc' = "fetch_returned"
                      /\ sleeps' = sleeps
                 ELSE IF Len(tried) = retries - 1
                 THEN /\ result' = "None" /\ pc' = "fetch_returned"
                      /\ sleeps' = sleeps + 1
                 ELSE /\ result' = result /\ pc' = pc
                      /\ sleeps' = sleeps + 1
    /\ UNCHANGED <<script, i, mainrest, oldaux, beside_fetch, retries, saved>>

\* one pass of "for i in range(retries)": requests.get, after a 301 or 302
\* a second requests.get for the Location, raise_for_status; the response is
\* returned, or the exception is caught: after the last attempt fetch prints
\* it and returns None, otherwise it sleeps 2 s.  With retries = 0 the loop
\* body never runs and fetch returns None.
fetch_attempt ==
    /\ pc = "fetch_attempt"
    /\ IF Len(tried) >= retries
       THEN /\ result' = "None" /\ pc' = "fetch_returned"
            /\ UNCHANGED <<tried, sleeps>>
       ELSE \E went \in AttemptOutcomes :
              /\ tried' = Append(tried, went)
              /\ IF went \in AttemptSucceeds
                 THEN /\ result' = "response" /\ pc' = "fetch_returned"
                      /\ sleeps' = sleeps
                 ELSE IF Len(tried) = retries - 1
                 THEN /\ result' = "None" /\ pc' = "fetch_returned"
                      /\ sleeps' = sleeps
                 ELSE /\ result' = result /\ pc' = pc
                      /\ sleeps' = sleeps + 1
    /\ UNCHANGED <<script, i, mainrest, oldaux, beside_fetch, retries, saved>>

\* download_document after fetch: False without a file when fetch gave None,
\* otherwise save_file and True
download_document ==
    /\ pc = "fetch_returned"
    /\ saved' = (result = "response")
    /\ pc' = "document_done"
    /\ UNCHANGED <<script, i, mainrest, oldaux, beside_fetch, retries, tried, sleeps,
                   result>>

NextFetch ==
    \/ fetch_attempt
    \/ download_document

SpecFetch == InitFetch /\ [][NextFetch]_vars

(***************************************************************************)
(* courtlistener_download.py with COURTLISTENER_TOKEN set: every court has *)
(* opinions 1..N, which the API serves page_len to a page; the "next" link *)
(* of a page is null when no opinion follows it.                           *)
(***************************************************************************)
MaxPageLen == 2    \* opinions on one page: 1..MaxPageLen

\* the opinions on page p
results(p) == {k \in 1..N : (p - 1) * page_len < k /\ k <= p * page_len}

\* data.get("next") of page p is not null
has_next(p) == p * page_len < N

InitOpinion ==
    /\ script = "courtlistener"
    /\ pc = "opinions_main" /\ i = 1
    /\ N \in 0..MaxUnits
    /\ MainIdle /\ EnvIdle /\ PathsIdle /\ RateIdle /\ LimitIdle /\ IndexIdle
    /\ BesideOpinionIdle
    /\ page_len \in 1..MaxPageLen
    /\ page = 1 /\ total = 0 /\ grand_total = 0 /\ broke = FALSE
    /\ written_now = {} /\ partial = {} /\ on_disk = {} /\ returned = <<>>

\* main: download_opinions is called for the next court and runs up to its
\* while loop; after the last court main prints the grand total
opinions_main ==
    /\ pc = "opinions_main"
    /\ IF i > RateCourts
       THEN /\ pc' = "opinions_done"
            /\ UNCHANGED <<page, total, broke, written_now>>
       ELSE /\ page' = 1 /\ total' = 0 /\ broke' = FALSE
            /\ written_now' = {}
            /\ pc' = "opinions_page"
    /\ UNCHANGED <<script, i, mainrest, oldaux, beside_opinion, page_len, grand_total,
                   partial, on_disk, returned>>

\* the page loop with a handler that lets a failed request leave main
opinions_page_raises ==
    /\ pc = "opinions_page"
    /\ \E went \in {"ok", "request_raises", "write_raises"} :
         CASE went = "ok" ->
                /\ written_now' = written_now \cup results(page)
                /\ on_disk' = on_disk \cup {<<i, k>> : k \in results(page)}
                /\ total' = total + Cardinality(results(page))
                /\ page' = page + 1
                /\ pc' = IF has_next(page) THEN pc ELSE "opinions_return"
                /\ UNCHANGED <<broke, partial>>
           [] went = "request_raises" ->
                /\ broke' = TRUE
                /\ pc' = "crashed"
                /\ UNCHANGED <<written_now, on_disk, total, page, partial>>
           [] OTHER ->
                \E bad \in results(page) :
                  LET before == {k \in results(page) : k < bad} IN
                  /\ written_now' = written_now \cup before
                  /\ on_disk' = on_disk \cup {<<i, k>> : k \in before}
                  /\ partial' = partial \cup {<<i, bad>>}
                  /\ total' = total + Cardinality(before)
                  /\ broke' = TRUE
                  /\ pc' = "opinions_return"
                  /\ page' = page
    /\ UNCHANGED <<script, i, mainrest, oldaux, beside_opinion, page_len, grand_total,
                   returned>>

\* one pass of "while url": the request or resp.json() raises; or every
\* opinion of the page is written and url becomes the next link; or the
\* write of one opinion raises after the ones before it on the page were
\* written.  An exception is printed and breaks out of the loop.
opinions_page ==
    /\ pc = "opinions_page"
    /\ \E went \in {"ok", "request_raises", "write_raises"} :
         CASE went = "ok" ->
                /\ written_now' = written_now \cup results(page)
                /\ on_disk' = on_disk \cup {<<i, k>> : k \in results(page)}
                /\ total' = total + Cardinality(results(page))
                /\ page' = page + 1
                /\ pc' = IF has_next(page) THEN pc ELSE "opinions_return"
                /\ UNCHANGED <<broke, partial>>
           [] went = "request_raises" ->
                /\ broke' = TRUE
                /\ pc' = "opinions_return"
                /\ UNCHANGED <<written_now, on_disk, total, page, partial>>
           [] OTHER ->
                \E bad \in results(page) :
                  LET before == {k \in results(page) : k < bad} IN
                  /\ written_now' = written_now \cup before
                  /\ on_disk' = on_disk \cup {<<i, k>> : k \in before}
                  /\ partial' = partial \cup {<<i, bad>>}
                  /\ total' = total + Cardinality(before)
                  /\ broke' = TRUE
                  /\ pc' = "opinions_return"
                  /\ page' = page
    /\ UNCHANGED <<script, i, mainrest, oldaux, beside_opinion, page_len, grand_total,
                   returned>>

\* print the court's total, return total; main adds it to grand_total
opinions_return ==
    /\ pc = "opinions_return"
    /\ returned' = Append(returned, total)
    /\ grand_total' = grand_total + total
    /\ i' = i + 1
    /\ pc' = "opinions_main"
    /\ UNCHANGED <<script, mainrest, oldaux, beside_opinion, page_len, page, total, broke,
                   written_now, partial, on_disk>>

NextOpinion ==
    \/ opinions_main
    \/ opinions_page
    \/ opinions_return

SpecOpinion == InitOpinion /\ [][NextOpinion]_vars

(***************************************************************************)
(* Properties                                                              *)
(***************************************************************************)
UnitsOfPlan == 1..N
Count(S) == Cardinality(S)

\* the complete bodies a response can carry, as the scripts store them
CompleteBodies == {Good, ErrBody, OpinionText(Good), OpinionText(ErrBody)}

\* C1: resume-safety. In every reachable state, a unit's final local target
\* either does not exist or holds a complete body; a partially written file
\* is never visible at the final path (download_warc, download_filing).
C1_ResumeSafety ==
    script \in {"ccnews", "edgar"} =>
        \A u \in UnitsOfPlan : Exists(fs, u) => fs[u] \in CompleteBodies

\* C2: idempotence. When a run has completed and left every unit of the plan
\* in place, a second completed run over the same plan and options downloads
\* nothing: every unit takes the skip branch.
C2_Idempotence ==
    ( /\ script \in {"stackexchange", "uspto", "courtlistener"}
      /\ ~dry_run
      /\ run >= 2 /\ prev_pc = "done" /\ pc = "done"
      /\ \A u \in UnitsOfPlan : Exists(fs0, u) )
    => \A u \in UnitsOfPlan : took[u] = "skip"

\* C3: failure isolation. When the fetch of exactly one unit raised a
\* transport error and the run has ended, the run was not aborted: it is done,
\* every unit of the plan was processed, and the summary reports 1 failed and
\* N-1 downloaded-or-skipped.
C3_FailureIsolation ==
    ( /\ script \in {"stackexchange", "nycourts_search", "docling"}
      /\ pc \in {"done", "crashed"}
      /\ Count({u \in UnitsOfPlan : took[u] \in {"connect_fail", "reset"}}) = 1 )
    => /\ pc = "done"
       /\ \A u \in UnitsOfPlan : took[u] # "none"
       /\ script = "stackexchange" =>
            summary.failed = 1 /\ summary.downloaded = N - 1

\* C4: a unit whose fetch ended in a transport failure (timeout, non-2xx
\* status, connection reset) has no file at its local target afterwards, and
\* is not counted as downloaded.
C4_FailedLeavesNoFile ==
    script \in {"pubmed_central", "edgar", "nycourts_search"} =>
        /\ \A u \in UnitsOfPlan :
             took[u] \in TransportFailures => ~Exists(fs, u)
        /\ (script # "nycourts_search" /\ pc = "done" /\ summary.printed) =>
             summary.downloaded = Count({u \in UnitsOfPlan : took[u] \in {"skip", "ok"}})

\* C5: the summary counts skipped, downloaded and failed units separately and
\* they add up to the total; for the plan [A, B, C] with A present, B fetched
\* and C answered with status 500 it is {skipped 1, downloaded 1, failed 1,
\* total 3}.
C5_SummaryCounts ==
    ( /\ script \in {"stackexchange", "semantic_scholar"}
      /\ pc = "done" /\ summary.printed )
    => /\ "skipped" \in DOMAIN summary
       /\ "failed" \in DOMAIN summary
       /\ summary.skipped = Count({u \in UnitsOfPlan : took[u] = "skip"})
       /\ summary.downloaded = Count({u \in UnitsOfPlan : took[u] = "ok"})
       /\ summary.failed = Count({u \in UnitsOfPlan : took[u] \in TransportFailures})
       /\ summary.skipped + summary.downloaded + summary.failed = N

\* C6: a unit whose local target exists when the run starts (and, where the
\* listing gives a size, has that size) is skipped, and no network call is
\* made for it during the run.
C6_PresentUnitNoNetwork ==
    script \in {"pubmed_abstracts", "uspto"} =>
        \A u \in UnitsOfPlan :
            ( /\ Exists(fs0, u)
              /\ listed_size # 0 => Len(fs0[u]) = listed_size )
            => netcalls[u] = 0 /\ took[u] \in {"none", "skip"}

\* C7: dry-run purity. In a run with dry_run set the filesystem under the
\* storage root is what it was when the run started: no file and no directory
\* is created or modified.
C7_DryRunPurity ==
    (script \in {"ccnews", "edgar", "govinfo"} /\ dry_run) =>
        fs = fs0 /\ dirs = dirs0

C9_VerifyRemovesMismatch ==
    [][ ( /\ script = "pubmed_abstracts"
          /\ pc = "verify" /\ pc' # "killed"
          /\ expected_md5' # NoMd5 )
        => /\ md5(fs[i]) # expected_md5' =>
                ~verify_file(fs[i], expected_md5') /\ ~Exists(fs', i)
           /\ md5(fs[i]) = expected_md5' =>
                verify_file(fs[i], expected_md5') /\ fs' = fs /\ Exists(fs', i)
      ]_vars

\* one run in which a file failed verification and was removed and another
\* passed it and stayed
C9_Witness ==
    /\ script = "pubmed_abstracts" /\ verify /\ pc = "done"
    /\ \E u, v \in UnitsOfPlan :
         /\ took[u] = "http_error" /\ ~Exists(fs, u)
         /\ took[v] = "ok" /\ Exists(fs, v) /\ fs[v] = Good
    /\ verified >= 1 /\ failed >= 1

\* C10: a file whose content is corrupt or incomplete (size or checksum
\* mismatch) is not left at its local target once its unit has been
\* processed, so no run takes the skip branch for a corrupt file.
C10_CorruptNeverLeft ==
    ( \/ script = "uspto" /\ listed_size # 0
      \/ script = "pubmed_abstracts" /\ verify )
    => \A u \in UnitsOfPlan :
         (took[u] # "none" /\ Exists(fs, u)) => fs[u] = Good

\* C11: enumeration. A listing call that returns zero results ends the page
\* loop without error (the run is done), and a transport failure of a listing
\* call aborts enumeration and reaches the caller as an error (the run ends
\* with an error); the two are never treated alike.
C11_ListingFailureSurfaced ==
    ( /\ script \in {"courtlistener", "ccnews", "uspto"}
      /\ pc \in {"done", "crashed", "exit1"} )
    => /\ listing = "error" => pc \in {"crashed", "exit1"}
       /\ (listing = "ok" /\ N = 0) => pc = "done"

\* C12: the exit status of a run that has ended is non-zero exactly when a
\* listing (enumeration) call failed or the required credential is missing;
\* it is 0 otherwise, whatever the per-unit failures.
C12_ExitStatus ==
    ( /\ script \in {"edgar", "courtlistener", "semantic_scholar"}
      /\ pc \in {"done", "crashed", "exit1"} )
    => (ExitStatus(pc) # 0 <=> (listing = "error" \/ ~has_cred))

\* C13: when the required credential is absent, the run fails fatally before
\* any enumeration call: it makes no listing request and no download, and it
\* ends only with the fatal exit.
C13_MissingCredentialFatal ==
    (script \in NeedsCred /\ ~has_cred) =>
        /\ listcalls = 0
        /\ \A u \in UnitsOfPlan : netcalls[u] = 0
        /\ pc \in {"start", "exit1"}

\* the lines of .env that assign key k, in file order
AssignsOf(k) ==
    SelectSeq(dotenv, LAMBDA l : l.kind = "assign" /\ l.key = k)

\* C20: _load_env never changes a variable that is already set: every key
\* present before the call keeps its value; a key that is not preset and
\* appears several times in .env ends up with the value of its first
\* occurrence.
C20_LoadEnvKeepsPreset ==
    /\ \A k \in DOMAIN environ0 :
         k \in DOMAIN environ /\ environ[k] = environ0[k]
    /\ pc = "env_loaded" =>
         \A k \in EnvKeys \ DOMAIN environ0 :
            IF AssignsOf(k) = <<>> THEN k \notin DOMAIN environ
            ELSE k \in DOMAIN environ /\ environ[k] = AssignsOf(k)[1].val

\* .env has been read; it assigns another value to a preset key, and assigns
\* two different values to a key that was not preset
C20_Witness ==
    /\ pc = "env_loaded"
    /\ \E k \in DOMAIN environ0 :
         /\ AssignsOf(k) # <<>>
         /\ AssignsOf(k)[1].val # environ0[k]
    /\ \E k \in EnvKeys \ DOMAIN environ0 :
         /\ Len(AssignsOf(k)) >= 2
         /\ AssignsOf(k)[1].val # AssignsOf(k)[2].val
         /\ k \in DOMAIN environ

\* C14: determinism. The local target path of a unit is a function of the
\* unit's identifier alone: whatever the position of the unit in the listing
\* and whatever was downloaded before, every run derives the same path for it.
C14_PathDeterminism ==
    \A u \in PathUnitIds : Cardinality(derived[u]) <= 1

\* p lies inside the directory root
Inside(root, p) ==
    /\ Len(p) >= Len(root)
    /\ SubSeq(p, 1, Len(root)) = root

\* C15: every path a file is written to lies inside the configured storage
\* root, whatever name the remote index or listing carries (absolute names
\* and names with ".." segments included).
C15_WritesInsideStorageRoot ==
    \A p \in written : Inside(StorageRoot.segs, p)

\* C16: rate limit. Where a script has a rate-limit delay, no network call is
\* issued without the pause having elapsed since the previous call, after a
\* success as well as after a failure.
C16_PauseBeforeEveryCall ==
    script \in {"edgar", "courtlistener", "nycourts"} => paused_before

\* C17: with --limit given, at most that many units are fetched in one
\* invocation, over all the groups it processes; with no limit given, every
\* enumerated unit has been processed when the invocation is done.
C17_LimitOverInvocation ==
    /\ limit # NoLimit => units_fetched <= limit
    /\ (limit = NoLimit /\ pc = "limit_done") => units_fetched = enumerated

\* C18: a run of stackexchange, pubmed_abstracts or nycourts search_stage that
\* is not a dry run and whose enumeration succeeded eventually prints its
\* final summary line with the counts, whatever happened to the single units
\* (unless it is killed from outside), and does so in that same run.
C18_SummaryEventuallyPrinted ==
    \A r \in 1..MaxRuns :
        ( /\ script \in {"stackexchange", "pubmed_abstracts", "nycourts_search"}
          /\ ~dry_run
          /\ run = r /\ listing = "ok" )
        ~> (run = r /\ (summary.printed \/ pc = "killed"))

\* C19: an enumeration that finds the index of its month or quarter cached
\* makes no network call and returns the unit list that the enumeration
\* before returned, and an enumeration that failed has left no cache file.
C19_IndexCache ==
    /\ (pc = "index_returned" /\ was_cached) =>
           /\ index_calls = 0
           /\ prev_enum.pc = "index_returned" => paths = prev_enum.paths
    /\ pc = "index_failed" => ~index_file.exists

\* the tables import_csv was called for before the k-th call
InvokedBefore(k) == {invoked[j] : j \in 1..(k - 1)}

C23_SuccessMeansAllImported ==
    success_printed =>
        /\ committed = {FILES[k] : k \in 1..Len(FILES)}
        /\ missing_csv = {}
        /\ raised = "none"

\* the months from October 2003 through month m, in chronological order
MonthsThrough(m) ==
    [k \in 1..((m.year - 2003) * 12 + m.month - 10 + 1) |-> MonthAt(k - 1)]

\* C22: when crawl_court_archives returns it has called crawl_index_page for
\* every month from October 2003 through the current month, once each and in
\* chronological order.
C22_VisitsEveryMonth ==
    pc = "archive_return" => visited = MonthsThrough(now)

\* C24: in the PubMed download loop, after every iteration (at the head of
\* the loop and after it) downloaded >= 0, failed >= 0, verified <= downloaded
\* and downloaded + failed is the number of files processed so far, hence the
\* total at the end; with and without --verify, whether or not the checksum
\* could be fetched.
C24_PubmedCounters ==
    ( /\ script = "pubmed_abstracts"
      /\ ~dry_run /\ listing = "ok"
      /\ pc \in {"loop", "done"} )
    => /\ downloaded >= 0 /\ failed >= 0
       /\ verified <= downloaded
       /\ downloaded + failed = i - 1
       /\ pc = "done" => downloaded + failed = N

C24_Witness ==
    /\ script = "pubmed_abstracts" /\ verify /\ pc = "done"
    /\ N = 3 /\ downloaded = 2 /\ failed = 1 /\ verified = 1
    /\ expected_md5 = NoMd5

\* C25: the offsets requested are 0, page_size, 2 * page_size, ..., each once;
\* the loop goes on only while fewer than count files are listed and the last
\* page was not empty; and when it has ended against a server whose pages
\* were consecutive, all_files holds each of the files 1..count exactly once.
C25_PaginationComplete ==
    /\ \A k \in 1..Len(offsets) : offsets[k] = (k - 1) * page_size
    /\ (pc = "get_product_files" /\ offsets # <<>>) =>
           Len(all_files) < file_count /\ all_files # <<>>
    /\ (pc = "files_listed" /\ consecutive) =>
           all_files = [k \in 1..file_count |-> k]

C25_Witness ==
    /\ pc = "files_listed" /\ consecutive
    /\ file_count = 2 * page_size + 1
    /\ offsets = <<0, page_size, 2 * page_size>>

Failures(k) == \A j \in 1..k : tried[j] \notin AttemptSucceeds

\* C26: fetch makes at most retries attempts; it returns the response of the
\* first attempt that succeeds and makes no attempt after it; time.sleep(2)
\* is called exactly once after each failed attempt that is followed by
\* another; when every attempt has failed it returns None and does not raise.
C26_FetchTerminates ==
    /\ Len(tried) <= retries
    /\ result # "raised"
    /\ result = "none" =>
           /\ pc = "fetch_attempt"
           /\ Failures(Len(tried)) /\ sleeps = Len(tried)
    /\ result = "response" =>
           /\ tried[Len(tried)] \in AttemptSucceeds
           /\ Failures(Len(tried) - 1) /\ sleeps = Len(tried) - 1
    /\ result = "None" =>
           /\ Len(tried) = retries /\ Failures(retries)
           /\ sleeps = (IF retries = 0 THEN 0 ELSE retries - 1)

C26_Witness ==
    /\ retries = 3 /\ result = "None"
    /\ tried = <<"exception", "redirect_fail", "http_error">>
    /\ pc = "document_done" /\ ~saved

\* the opinion files of court c that were written
FilesOf(c) == {f \in on_disk : f[1] = c}

\* C27: download_opinions follows the next link until it is null (a call
\* that met no exception has written every opinion of the court); an
\* exception ends the page loop without leaving the function, which returns
\* the number of opinions written so far; the files of the pages before stay;
\* main goes on to the next court; and the total returned for a court is the
\* number of opinion files written in that call.
C27_PageLoopContained ==
    /\ pc # "crashed"
    /\ pc = "opinions_return" =>
           /\ total = Cardinality(written_now)
           /\ ~broke => written_now = 1..N
    /\ \A c \in 1..Len(returned) : returned[c] = Cardinality(FilesOf(c))
    /\ pc = "opinions_done" => Len(returned) = RateCourts

C27_Witness ==
    /\ pc = "opinions_done" /\ N = 3 /\ page_len = 2
    /\ returned = <<2, 3>>
    /\ partial = {}

\* C28: a CC-NEWS month whose index is empty (freshly fetched or cached) or
\* whose index fetch failed counts as zero units: the run ends with no WARC
\* indexed and none downloaded, and download_warc was not called (which
\* would have created the directory of the WARC's month).
C28_EmptyMonthZeroUnits ==
    ( /\ script = "ccnews" /\ pc = "done" /\ summary.printed
      /\ (N = 0 \/ listing = "error") )
    => /\ summary.indexed = 0
       /\ summary.downloaded = 0
       /\ "warcs/unknown" \notin dirs

====
